---- MODULE Spec2Model ----
(***************************************************************************)
(* Model of the profile validator of RAK-BACnet-Profiles:                  *)
(*   scripts/validate-profile.js   validateYAMLSyntax, validateSchema,     *)
(*                                 validateCodecSyntax, validateFileNaming,*)
(*                                 deepEqual, extractModelFromPath,        *)
(*                                 runTestDataValidation, validateProfile, *)
(*                                 main                                    *)
(*   scripts/utils/yaml-parser.js  validateRequiredFields,                 *)
(*                                 validateBACnetObjects                   *)
(*   scripts/test-codec.js         testDecode, testEncode                  *)
(*   scripts/validate-all.js       findYAMLFiles, main                     *)
(*   scripts/utils/hex-converter.js  hexToBytes, bytesToHex                *)
(*   scripts/update-registry.js    scanProfiles, generateStatistics, main  *)
(*   scripts/validate-registry.js  validateRegistry                        *)
(***************************************************************************)
EXTENDS Integers, Sequences, FiniteSets, TLC

(***************************************************************************)
(* State.  Each group of variables is one call in progress: its arguments, *)
(* where it stands and what it has produced.  The one thing that outlives  *)
(* a call is the set of built-in objects of the process (Math, JSON,       *)
(* Object, Array, ...), which every sandbox receives by reference: host    *)
(* tells whether a codec script has left a mark on one of them.            *)
(***************************************************************************)
VARIABLES
    actual, expected, dePc, deResult,            \* deepEqual(actual, expected)
    fProfile, fVersion, fPc, fFields, fBacnet, fCodec, \* the checks of one parsed profile
    tCodec, tStem, tData, tExpected, tPc, tCheck, \* runTestDataValidation
    vIn, vPc, vValid, vOrder, vChecks, vTests,   \* validateProfile and its report
    vRun, vFirst,                                \* a second validateProfile of the same file
    bArgs, bTree, bPc, bFiles, bI, bResults, bListed, bExit, \* validate-all.js main
    sCodec, sCalls,                              \* testDecode / testEncode calls of a process
    cPlace, cTrail, cValue,                      \* an expression a codec script evaluates
    mArgs, mPc, mExit, mJson,                    \* validate-profile.js main
    gTree, gPc, gFile, gWarnings,                \* update-registry.js, validate-registry.js
    xBytes, xSep, xText, xPc, xOut,              \* bytesToHex and hexToBytes
    uCodec, uIn, uPc, uTrace, uCalls, uOut,      \* the steps of one testDecode call
    host                                         \* the built-ins every sandbox is handed

deVars == <<actual, expected, dePc, deResult>>
fVars == <<fProfile, fVersion, fPc, fFields, fBacnet, fCodec>>
tVars == <<tCodec, tStem, tData, tExpected, tPc, tCheck>>
vVars == <<vIn, vPc, vValid, vOrder, vChecks, vTests>>
rVars == <<vRun, vFirst>>
bVars == <<bArgs, bTree, bPc, bFiles, bI, bResults, bListed, bExit>>
sVars == <<sCodec, sCalls>>
cVars == <<cPlace, cTrail, cValue>>
mVars == <<mArgs, mPc, mExit, mJson>>
gVars == <<gTree, gPc, gFile, gWarnings>>
xVars == <<xBytes, xSep, xText, xPc, xOut>>
uVars == <<uCodec, uIn, uPc, uTrace, uCalls, uOut>>
toolVars == <<cVars, mVars, gVars, xVars, uVars>>
callVars == <<deVars, fVars, tVars, vVars, rVars, bVars, sVars>>
vars == <<callVars, toolVars, host>>

(***************************************************************************)
(* JavaScript values.  Every value is a record of one shape                *)
(*   t     : the kind ("null", "undef", "nan", "bool", "num", "str",       *)
(*           "arr", "obj")                                                 *)
(*   n     : the number (or 0/1 for a boolean)                             *)
(*   s     : the string                                                    *)
(*   keys  : the own keys of an object, in insertion order                 *)
(*   items : the elements of an array / the values of an object, by key    *)
(***************************************************************************)
JNull == [t |-> "null", n |-> 0, s |-> "", keys |-> <<>>, items |-> <<>>]
JUndef == [t |-> "undef", n |-> 0, s |-> "", keys |-> <<>>, items |-> <<>>]
JNaN == [t |-> "nan", n |-> 0, s |-> "", keys |-> <<>>, items |-> <<>>]
JBool(b) == [t |-> "bool", n |-> IF b THEN 1 ELSE 0, s |-> "", keys |-> <<>>, items |-> <<>>]
JNum(x) == [t |-> "num", n |-> x, s |-> "", keys |-> <<>>, items |-> <<>>]
JStr(x) == [t |-> "str", n |-> 0, s |-> x, keys |-> <<>>, items |-> <<>>]
JArr(xs) == [t |-> "arr", n |-> 0, s |-> "", keys |-> <<>>, items |-> xs]
JObj(ks, xs) == [t |-> "obj", n |-> 0, s |-> "", keys |-> ks, items |-> xs]
JBigInt(x) == [t |-> "bigint", n |-> x, s |-> "", keys |-> <<>>, items |-> <<>>]

\* Bounds of the value universe.
MaxNum == 2
MaxLen == 2

\* The strings of the universe; the first MaxNum of NumStr spell the numbers 1..MaxNum.
NumStr == <<"1", "2", "3", "4">>
IndexKey == <<"0", "1", "2", "3", "4">>

Nums == {JNum(x) : x \in 1..MaxNum}
Prims == {JNull, JUndef, JNaN, JBool(TRUE), JStr("1"), JStr("a")} \cup Nums
Elems == {JNull, JStr("1")} \cup Nums

SeqsUpTo(S, k) == UNION {[1..m -> S] : m \in 0..k}
Arrays == {JArr(xs) : xs \in SeqsUpTo(Elems, MaxLen)}

KeyLists == {<<>>, <<"a">>, <<"b">>, <<"a", "b">>, <<"b", "a">>}
Objects == UNION {{JObj(ks, xs) : xs \in [1..Len(ks) -> Elems]} : ks \in KeyLists}

\* A few composites one level deeper, and objects keyed like array indices.
Inner == {JArr(<<>>), JArr(<<JNum(1)>>), JObj(<<>>, <<>>), JObj(<<"a">>, <<JNum(1)>>),
          JObj(<<"a", "b">>, <<JNum(1), JNum(2)>>), JObj(<<"b", "a">>, <<JNum(2), JNum(1)>>)}
Nested == {JArr(<<c>>) : c \in Inner} \cup {JObj(<<"a">>, <<c>>) : c \in Inner}
IndexKeyed == {JObj(<<"0">>, <<JNum(1)>>), JObj(<<"0", "1">>, <<JNum(1), JNum(2)>>)}

Values == Prims \cup Arrays \cup Objects \cup Nested \cup IndexKeyed

IsComposite(v) == v.t \in {"arr", "obj"}

\* The values JSON.parse can produce.
RECURSIVE IsJSONLike(_)
IsJSONLike(v) ==
    /\ v.t \in {"null", "bool", "num", "str", "arr", "obj"}
    /\ \A i \in 1..Len(v.items) : IsJSONLike(v.items[i])

(***************************************************************************)
(* deepEqual (validate-profile.js)                                         *)
(***************************************************************************)
InSeq(x, xs) == \E i \in 1..Len(xs) : xs[i] = x

\* a == b of JavaScript on the primitives of the universe (the coercing comparison).
LooseEquals(a, e) ==
    IF a.t \in {"null", "undef"} \/ e.t \in {"null", "undef"}
    THEN a.t \in {"null", "undef"} /\ e.t \in {"null", "undef"}
    ELSE IF a.t = "nan" \/ e.t = "nan" THEN FALSE
    ELSE IF IsComposite(a) \/ IsComposite(e) THEN FALSE
    ELSE IF a.t = e.t THEN a.n = e.n /\ a.s = e.s
    ELSE LET num(v) == IF v.t = "str"
                       THEN (IF \E x \in 1..Len(NumStr) : NumStr[x] = v.s
                             THEN CHOOSE x \in 1..Len(NumStr) : NumStr[x] = v.s
                             ELSE -1)
                       ELSE v.n
         IN  num(a) # -1 /\ num(a) = num(e)

\* a === b.  Two composites are never the same reference: deepEqual is not exported
\* and its one caller passes a value built by the codec and a value built by JSON.parse.
StrictEquals(a, e) ==
    /\ a.t = e.t
    /\ a.t \notin {"nan", "arr", "obj"}
    /\ a.n = e.n
    /\ a.s = e.s

\* v == null
IsNullish(v) == v.t \in {"null", "undef"}

\* Array.isArray(v)
IsArray(v) == v.t = "arr"

\* typeof v === 'object'
TypeofObject(v) == v.t \in {"null", "arr", "obj"}

\* Object.keys(v): the own keys of an object, the indices of an array.
ObjectKeys(v) ==
    IF v.t = "arr" THEN [i \in 1..Len(v.items) |-> IndexKey[i]]
    ELSE v.keys

\* v[key]
Get(v, key) ==
    LET ks == ObjectKeys(v)
    IN  IF InSeq(key, ks)
        THEN v.items[CHOOSE i \in 1..Len(ks) : ks[i] = key]
        ELSE JUndef

RECURSIVE deepEqual(_, _)

\* Mutant: the length check is missing.
ArrayBranchNoLength(a, e) ==
    \A i \in 1..Len(a.items) :
        deepEqual(a.items[i], IF i <= Len(e.items) THEN e.items[i] ELSE JUndef)

ArrayBranch(a, e) ==
    /\ Len(a.items) = Len(e.items)
    /\ \A i \in 1..Len(a.items) : deepEqual(a.items[i], e.items[i])

\* Mutant: the key-count check is missing.
ObjectBranchNoCount(a, e) ==
    LET ak == ObjectKeys(a)
        ek == ObjectKeys(e)
    IN  \A i \in 1..Len(ak) :
            /\ InSeq(ak[i], ek)
            /\ deepEqual(Get(a, ak[i]), Get(e, ak[i]))

\* Mutant: the values are compared with === instead of recursively.
ObjectBranchShallow(a, e) ==
    LET ak == ObjectKeys(a)
        ek == ObjectKeys(e)
    IN  /\ Len(ak) = Len(ek)
        /\ \A i \in 1..Len(ak) :
            /\ InSeq(ak[i], ek)
            /\ StrictEquals(Get(a, ak[i]), Get(e, ak[i]))

ObjectBranch(a, e) ==
    LET ak == ObjectKeys(a)
        ek == ObjectKeys(e)
    IN  /\ Len(ak) = Len(ek)
        /\ \A i \in 1..Len(ak) :
            /\ InSeq(ak[i], ek)
            /\ deepEqual(Get(a, ak[i]), Get(e, ak[i]))

deepEqual(a, e) ==
    IF StrictEquals(a, e) THEN TRUE
    ELSE IF IsNullish(a) \/ IsNullish(e) THEN FALSE
    ELSE IF IsArray(a) /\ IsArray(e) THEN ArrayBranch(a, e)
    ELSE IF TypeofObject(a) /\ TypeofObject(e) THEN ObjectBranch(a, e)
    ELSE StrictEquals(a, e)

DeepEqualInit ==
    /\ actual \in Values
    /\ expected \in Values
    /\ dePc = "ready"
    /\ deResult = FALSE

DeepEqualStep ==
    /\ dePc = "ready"
    /\ deResult' = deepEqual(actual, expected)
    /\ dePc' = "done"
    /\ UNCHANGED <<actual, expected, fVars, tVars, vVars, rVars, bVars, sVars, host, toolVars>>

(***************************************************************************)
(* Profiles: what yaml.load returns for a profile file.                    *)
(*   kind      "undefined" (an empty document), "scalar" (a document that  *)
(*             is a plain string) or "object" (a mapping)                  *)
(*   model     "absent", "empty" (the empty string) or "text"              *)
(*   vendor    "absent" or "text"                                          *)
(*   codec     kind "absent", "null", "empty" (''), "number" or "text";    *)
(*             for a text: which names it contains, whether the script     *)
(*             loads in the sandbox, whether it defines decodeUplink and   *)
(*             encodeDownlink (the latter whenever it loads and names it), *)
(*             and what its top-level code does with the built-ins it is   *)
(*             handed: "untouched", or "counts" (it refuses to load when   *)
(*             a built-in carries its mark, and marks it otherwise)        *)
(*   datatype  kind "absent", "null", "string" or "object"; for an object  *)
(*             the channel configurations in key order (keys "1", "2", ..) *)
(*   lorawan   kind "absent", "null", "scalar" or "object"; for an object  *)
(*             the set of keys it holds and those whose value is false     *)
(***************************************************************************)
MaxChannels == 2

NoText == [kind |-> "absent", hasDecode |-> FALSE, hasDecodeUplink |-> FALSE,
           hasEncode |-> FALSE, hasEncodeDownlink |-> FALSE,
           loads |-> FALSE, definesDecodeUplink |-> FALSE, definesEncodeDownlink |-> FALSE,
           builtins |-> "untouched"]

CodecText(d, du, e, ed, l, def) ==
    [kind |-> "text", hasDecode |-> d, hasDecodeUplink |-> du,
     hasEncode |-> e, hasEncodeDownlink |-> ed, loads |-> l, definesDecodeUplink |-> def,
     definesEncodeDownlink |-> (ed /\ l), builtins |-> "untouched"]

FullCodec == CodecText(TRUE, TRUE, TRUE, TRUE, TRUE, TRUE)

\* The full codec whose first line is
\*   if (Math.seen) throw new Error('again'); Math.seen = true;
CountingCodec == [FullCodec EXCEPT !.builtins = "counts"]

\* What a codec script does when it runs in a process whose built-ins are in state h.
CodecIn(h, codec) ==
    IF codec.builtins = "counts" /\ h
    THEN [codec EXCEPT !.loads = FALSE, !.definesDecodeUplink = FALSE,
                       !.definesEncodeDownlink = FALSE]
    ELSE codec

\* The built-ins after the script has been run in a sandbox.
HostAfter(h, codec) ==
    h \/ (codec.kind = "text" /\ codec.loads /\ codec.builtins = "counts")

CodecTexts ==
    { FullCodec,
      CodecText(FALSE, TRUE, TRUE, TRUE, TRUE, TRUE),     \* decodeUplink only
      CodecText(TRUE, FALSE, TRUE, TRUE, TRUE, FALSE),    \* Decode only
      CodecText(FALSE, FALSE, FALSE, FALSE, TRUE, FALSE), \* no entry point at all
      CodecText(TRUE, TRUE, TRUE, TRUE, FALSE, FALSE),    \* does not load
      CodecText(TRUE, TRUE, TRUE, FALSE, TRUE, TRUE),     \* no encodeDownlink
      CodecText(TRUE, TRUE, FALSE, FALSE, TRUE, TRUE),    \* no optional entry point
      CodecText(TRUE, TRUE, TRUE, TRUE, TRUE, FALSE),     \* decodeUplink only mentioned
      CodecText(FALSE, TRUE, TRUE, FALSE, TRUE, TRUE) }   \* neither Decode nor encodeDownlink

CodecOfKind(k) == [NoText EXCEPT !.kind = k]
Codecs == {CodecOfKind(k) : k \in {"absent", "null", "empty", "number"}} \cup CodecTexts

NullConfig == [kind |-> "null", name |-> FALSE, type |-> ""]
Config(nm, ty) == [kind |-> "object", name |-> nm, type |-> ty]
ChannelConfigs ==
    { NullConfig,
      Config(TRUE, "AnalogInputObject"),
      Config(FALSE, "OctetStringValueObject"),
      Config(TRUE, "FooObject"),
      Config(TRUE, ""),
      Config(FALSE, "") }

DatatypeOfKind(k) == [kind |-> k, channels |-> <<>>]
Datatypes ==
    {DatatypeOfKind(k) : k \in {"absent", "null", "string"}}
        \cup {[kind |-> "object", channels |-> cs] : cs \in SeqsUpTo(ChannelConfigs, MaxChannels)}

LorawanKeys == {"macVersion", "region", "supportOTAA", "supportClassB", "supportClassC"}
LorawanOfKind(k) == [kind |-> k, keys |-> {}, falseKeys |-> {}]
\* A mapping with the keys ks, those of fs with the value false.
LorawanObject(ks, fs) == [kind |-> "object", keys |-> ks, falseKeys |-> fs]
Lorawans ==
    {LorawanOfKind(k) : k \in {"absent", "null", "scalar"}}
        \cup {LorawanObject({"macVersion", "supportClassB"}, {"supportClassB"}),
              LorawanObject(LorawanKeys, {"supportOTAA", "supportClassB", "supportClassC"})}
        \cup {LorawanObject(ks, {}) :
                 ks \in { {}, LorawanKeys, {"macVersion"},
                          {"macVersion", "supportClassB", "supportClassC"},
                          {"macVersion", "region", "supportOTAA"},
                          {"region", "supportClassC"} }}

Models == {"absent", "empty", "text"}

NotAnObject(k) ==
    [kind |-> k, model |-> "absent", vendor |-> "absent", codec |-> CodecOfKind("absent"),
     datatype |-> DatatypeOfKind("absent"), lorawan |-> LorawanOfKind("absent")]

ProfilesOf(ms, vs, cs, ds, ls) ==
    {NotAnObject("undefined"), NotAnObject("scalar")}
        \cup [kind : {"object"}, model : ms, vendor : vs, codec : cs, datatype : ds, lorawan : ls]

(***************************************************************************)
(* Check results: {valid, errors, warnings}, or an exception (threw).      *)
(* An error is the message with its one interpolated argument.             *)
(***************************************************************************)
Err(m, a) == [msg |-> m, arg |-> a]
Result(es, ws) == [threw |-> FALSE, valid |-> es = <<>>, errors |-> es, warnings |-> ws]
Thrown == [threw |-> TRUE, valid |-> FALSE, errors |-> <<>>, warnings |-> <<>>]

RECURSIVE Flatten(_)
Flatten(ss) == IF ss = <<>> THEN <<>> ELSE Head(ss) \o Flatten(Tail(ss))

\* !x for the value of a top-level field
FalsyModel(m) == m \in {"absent", "empty"}
FalsyCodec(c) == c.kind \in {"absent", "null", "empty"}
FalsyDatatype(d) == d.kind \in {"absent", "null"}
FalsyLorawan(l) == l.kind \in {"absent", "null"}

(***************************************************************************)
(* validateRequiredFields (utils/yaml-parser.js, in its two versions)      *)
(***************************************************************************)
ParserVersions == {"classSupport", "region"}

lorawanRequired(version) ==
    IF version = "classSupport"
    THEN <<"macVersion", "supportClassB", "supportClassC">>
    ELSE <<"macVersion", "region", "supportOTAA">>

requiredFields == <<"model", "codec", "datatype", "lorawan">>

\* Mutant: the test is profile[field] === undefined.
FieldIsUndefined(profile, field) ==
    CASE field = "model" -> profile.model = "absent"
      [] field = "codec" -> profile.codec.kind = "absent"
      [] field = "datatype" -> profile.datatype.kind = "absent"
      [] OTHER -> profile.lorawan.kind = "absent"

\* !profile[field]
FieldIsFalsy(profile, field) ==
    CASE field = "model" -> FalsyModel(profile.model)
      [] field = "codec" -> FalsyCodec(profile.codec)
      [] field = "datatype" -> FalsyDatatype(profile.datatype)
      [] OTHER -> FalsyLorawan(profile.lorawan)

MissingFieldErrors(profile) ==
    Flatten([i \in 1..Len(requiredFields) |->
        IF FieldIsFalsy(profile, requiredFields[i])
        THEN <<Err("Missing required field: %s", requiredFields[i])>>
        ELSE <<>>])

CodecFieldErrors(codec) ==
    IF FalsyCodec(codec) THEN <<>>
    ELSE IF codec.kind # "text" THEN <<Err("codec field must be a string", "")>>
    ELSE IF ~codec.hasDecodeUplink THEN <<Err("codec must include decodeUplink function", "")>>
    ELSE <<>>

ChannelFieldErrors(config, channel) ==
    (IF ~config.name THEN <<Err("datatype.%s: missing 'name' field", channel)>> ELSE <<>>)
        \o (IF config.type = "" THEN <<Err("datatype.%s: missing 'type' field", channel)>> ELSE <<>>)

DatatypeFieldErrors(datatype) ==
    IF FalsyDatatype(datatype) THEN <<>>
    ELSE IF datatype.kind # "object" THEN <<Err("datatype field must be an object", "")>>
    ELSE Flatten([i \in 1..Len(datatype.channels) |->
             ChannelFieldErrors(datatype.channels[i], NumStr[i])])

\* Mutant: the test is !profile.lorawan[field].
LorawanKeyIsFalsy(lorawan, key) ==
    ~(lorawan.kind = "object" /\ key \in lorawan.keys \ lorawan.falseKeys)

\* profile.lorawan[field] === undefined
LorawanKeyIsUndefined(lorawan, key) == ~(lorawan.kind = "object" /\ key \in lorawan.keys)

LorawanFieldErrors(lorawan, version) ==
    IF FalsyLorawan(lorawan) THEN <<>>
    ELSE LET req == lorawanRequired(version)
         IN  Flatten([i \in 1..Len(req) |->
                 IF LorawanKeyIsUndefined(lorawan, req[i])
                 THEN <<Err("lorawan.%s is required", req[i])>>
                 ELSE <<>>])

\* Reading a property of undefined, or of a null channel configuration, throws.
RequiredFieldsThrows(profile) ==
    \/ profile.kind = "undefined"
    \/ /\ profile.datatype.kind = "object"
       /\ \E i \in 1..Len(profile.datatype.channels) :
              profile.datatype.channels[i].kind = "null"

validateRequiredFields(profile, version) ==
    IF RequiredFieldsThrows(profile) THEN Thrown
    ELSE Result(MissingFieldErrors(profile)
                    \o CodecFieldErrors(profile.codec)
                    \o DatatypeFieldErrors(profile.datatype)
                    \o LorawanFieldErrors(profile.lorawan, version),
                <<>>)

(***************************************************************************)
(* validateBACnetObjects (utils/yaml-parser.js)                            *)
(***************************************************************************)
\* Mutant: the octet-string object is not among the supported types.
supportedTypesWithoutOctetString ==
    <<"AnalogInputObject", "AnalogOutputObject", "AnalogValueObject", "BinaryInputObject",
      "BinaryOutputObject", "BinaryValueObject">>

supportedTypes ==
    <<"AnalogInputObject", "AnalogOutputObject", "AnalogValueObject", "BinaryInputObject",
      "BinaryOutputObject", "BinaryValueObject", "OctetStringValueObject">>

\* Object.entries of a string yields its characters, whose type is undefined.
StringDatatypeChars == 3

BACnetThrows(profile) ==
    \/ profile.kind = "undefined"
    \/ /\ profile.datatype.kind = "object"
       /\ \E i \in 1..Len(profile.datatype.channels) :
              profile.datatype.channels[i].kind = "null"

validateBACnetObjects(profile) ==
    IF BACnetThrows(profile) THEN Thrown
    ELSE IF FalsyDatatype(profile.datatype) THEN Result(<<>>, <<>>)
    ELSE IF profile.datatype.kind = "string"
    THEN Result([i \in 1..StringDatatypeChars |->
                    Err("datatype.%s: unsupported BACnet object type", IndexKey[i])], <<>>)
    ELSE Result(Flatten([i \in 1..Len(profile.datatype.channels) |->
                    IF InSeq(profile.datatype.channels[i].type, supportedTypes)
                    THEN <<>>
                    ELSE <<Err("datatype.%s: unsupported BACnet object type", NumStr[i])>>]),
                <<>>)

(***************************************************************************)
(* File names and model names are strings spelled out as character         *)
(* sequences.  A test case or expected-output entry carries its model as   *)
(* kind "absent" (no field), "null" or "str".                              *)
(***************************************************************************)
NoModel == [kind |-> "absent", s |-> <<>>]
NullModel == [kind |-> "null", s |-> <<>>]
StrModel(cs) == [kind |-> "str", s |-> cs]
ModelX == StrModel(<<"X">>)
ModelY == StrModel(<<"Y">>)

\* !m for a model value (an absent field reads as undefined)
FalsyName(m) == m.kind # "str" \/ m.s = <<>>

Hyphens(stem) == {i \in 1..Len(stem) : stem[i] = "-"}

\* extractModelFromPath: filename.match(/^[^-]+-(.+)$/) on the base name without
\* its extension; the hyphen that matches is the first one.
extractModelFromPath(stem) ==
    LET hs == Hyphens(stem)
        first == CHOOSE i \in hs : \A j \in hs : i <= j
    IN  IF hs = {} THEN NullModel
        ELSE IF first > 1 /\ first < Len(stem)
        THEN StrModel(SubSeq(stem, first + 1, Len(stem)))
        ELSE NullModel

(***************************************************************************)
(* testDecode (test-codec.js)                                              *)
(*   a test case: name, model, whether its input is a valid hex string,    *)
(*   and what decodeUplink does on it: throw, or return a value            *)
(***************************************************************************)
Throws == [k |-> "throw", v |-> JUndef]
Returns(v) == [k |-> "return", v |-> v]
TestCase(nm, m, hex, r) == [name |-> nm, model |-> m, hexOk |-> hex, ret |-> r]

Raised(m) == [threw |-> TRUE, msg |-> m, v |-> JUndef]
Returned(v) == [threw |-> FALSE, msg |-> "", v |-> v]

\* vm.runInContext(codecSource, sandbox) does not throw
CodecLoads(codec) == codec.kind = "empty" \/ (codec.kind = "text" /\ codec.loads)

testDecode(codec, tc) ==
    IF ~CodecLoads(codec) THEN Raised("Codec syntax error")
    ELSE IF ~(codec.kind = "text" /\ codec.definesDecodeUplink)
    THEN Raised("decodeUplink function not found in codec")
    ELSE IF ~tc.hexOk THEN Raised("Invalid hex string")
    ELSE IF tc.ret.k = "throw" THEN Raised("Decode execution error")
    ELSE Returned(tc.ret.v)

\* testEncode (test-codec.js); ret is what encodeDownlink does on the data.
testEncode(codec, ret) ==
    IF ~CodecLoads(codec) THEN Raised("Codec syntax error")
    ELSE IF ~(codec.kind = "text" /\ codec.definesEncodeDownlink)
    THEN Raised("encodeDownlink function not found in codec")
    ELSE IF ret.k = "throw" THEN Raised("Encode execution error")
    ELSE Returned(ret.v)

(***************************************************************************)
(* runTestDataValidation (validate-profile.js)                             *)
(***************************************************************************)
\* if (v): the truthiness of a value
Truthy(v) ==
    \/ IsComposite(v)
    \/ v.t = "bool" /\ v.n = 1
    \/ v.t = "num" /\ v.n # 0
    \/ v.t = "str" /\ v.s # ""

\* Mutant: only the test cases that name the model are selected.
SelectsCaseOfModelOnly(tc, currentModel) == tc.model = currentModel

\* Mutant: a test case that names a model runs only for a file of that model.
SelectsCaseOfKnownModel(tc, currentModel) ==
    FalsyName(tc.model) \/ (~FalsyName(currentModel) /\ tc.model = currentModel)

\* The filter of the test cases by model.
SelectsCase(tc, currentModel) ==
    IF FalsyName(tc.model) THEN TRUE
    ELSE IF FalsyName(currentModel) THEN TRUE
    ELSE tc.model = currentModel

\* The indices of the selected test cases, in fixture order.
RECURSIVE FilterIdx(_, _, _)
FilterIdx(cases, currentModel, i) ==
    IF i > Len(cases) THEN <<>>
    ELSE (IF SelectsCase(cases[i], currentModel) THEN <<i>> ELSE <<>>)
             \o FilterIdx(cases, currentModel, i + 1)

ExpectedEntry(nm, m, out) == [name |-> nm, model |-> m, expectedOutput |-> out]

\* Mutant: the expected entry is looked up by name alone.
MatchesExpectedByName(ec, tc) == ec.name = tc.name

MatchesExpected(ec, tc) ==
    /\ ec.name = tc.name
    /\ (FalsyName(ec.model) \/ FalsyName(tc.model) \/ ec.model = tc.model)

\* expectedOutputData.testCases.find(...): the expectedOutput of the first entry that
\* matches, null without expected data or without a match.
FindExpected(expectedData, tc) ==
    LET ecs == expectedData.cases
        hits == {j \in 1..Len(ecs) : MatchesExpected(ecs[j], tc)}
    IN  IF expectedData.state # "loaded" \/ hits = {} THEN JNull
        ELSE ecs[CHOOSE j \in hits : \A k \in hits : j <= k].expectedOutput

\* result.data
ActualOutput(result) == Get(result, "data")

Entry(i, tc, st, m, err, act, exp) ==
    [idx |-> i, name |-> tc.name, model |-> tc.model, status |-> st, matched |-> m,
     error |-> err, actualOutput |-> act, expectedOutput |-> exp]

\* The body of the loop for the test case at fixture index i.
RunCase(codec, expectedData, tc, i) ==
    LET res == testDecode(codec, tc)
        expectedOutput == FindExpected(expectedData, tc)
    IN  IF res.threw THEN Entry(i, tc, "FAIL", "absent", res.msg, JUndef, JUndef)
        ELSE IF IsNullish(res.v)
        THEN Entry(i, tc, "FAIL", "absent", "Cannot read properties", JUndef, JUndef)
        ELSE IF ~Truthy(expectedOutput) THEN Entry(i, tc, "PASS", "null", "", JUndef, JUndef)
        ELSE IF deepEqual(ActualOutput(res.v), expectedOutput)
        THEN Entry(i, tc, "PASS", "true", "", JUndef, JUndef)
        ELSE Entry(i, tc, "FAIL", "false", "Output does not match expected result",
                   ActualOutput(res.v), expectedOutput)

\* Mutant: an output mismatch is recorded in results only.
CaseErrorOfExecution(entry) ==
    IF entry.status = "FAIL" /\ entry.matched # "false"
    THEN <<Err("Test case '%s' failed", entry.name)>>
    ELSE <<>>

CaseError(entry) ==
    IF entry.status # "FAIL" THEN <<>>
    ELSE IF entry.matched = "false" THEN <<Err("Test case '%s' output mismatch", entry.name)>>
    ELSE <<Err("Test case '%s' failed", entry.name)>>

\* Mutant: a warning makes the stage invalid.
TestResultWarningsFail(es, ws, rs) ==
    [threw |-> FALSE, valid |-> es = <<>> /\ ws = <<>>, errors |-> es, warnings |-> ws,
     results |-> rs]

TestResult(es, ws, rs) ==
    [threw |-> FALSE, valid |-> es = <<>>, errors |-> es, warnings |-> ws, results |-> rs]

ExpectedWarnings(expectedData) ==
    IF expectedData.state = "unparsable"
    THEN <<Err("Failed to load expected output", "")>>
    ELSE <<>>

\* The built-ins when the k-th testDecode call of a run starts: every call runs the
\* codec script again, in a new sandbox over the same built-ins.
HostAt(h, codec, k) == IF k = 1 THEN h ELSE HostAfter(h, codec)

\* Mutant: the loop stops at the first test case whose execution fails.
RunCasesUntilFailure(h, codec, expectedData, cases, sel) ==
    LET all == [k \in 1..Len(sel) |->
                   RunCase(CodecIn(HostAt(h, codec, k), codec), expectedData,
                           cases[sel[k]], sel[k])]
        failed == {k \in 1..Len(sel) : all[k].status = "FAIL" /\ all[k].matched = "absent"}
    IN  IF failed = {} THEN all
        ELSE SubSeq(all, 1, CHOOSE k \in failed : \A l \in failed : k <= l)

\* The loop over the selected test cases: each iteration has its own try/catch.
RunCases(h, codec, expectedData, cases, sel) ==
    [k \in 1..Len(sel) |->
        RunCase(CodecIn(HostAt(h, codec, k), codec), expectedData, cases[sel[k]], sel[k])]

runTestDataValidation(h, codec, stem, testData, expectedData) ==
    LET currentModel == extractModelFromPath(stem)
        cases == testData.cases
        sel == FilterIdx(cases, currentModel, 1)
        rs == RunCases(h, codec, expectedData, cases, sel)
    IN  IF testData.state = "missing"
        THEN TestResult(<<>>, <<Err("No test data found (tests/test-data.json)", "")>>, <<>>)
        ELSE IF testData.state = "unparsable"
        THEN TestResult(<<Err("Failed to load test data", "")>>,
                        ExpectedWarnings(expectedData), <<>>)
        ELSE TestResult(Flatten([k \in 1..Len(rs) |-> CaseError(rs[k])]),
                        ExpectedWarnings(expectedData), rs)

\* The built-ins after the run: untouched unless a test case ran the script.
HostAfterTests(h, codec, stem, testData) ==
    IF testData.state = "loaded"
         /\ FilterIdx(testData.cases, extractModelFromPath(stem), 1) # <<>>
    THEN HostAfter(h, codec)
    ELSE h

\* Fixtures.
MaxCases == 3

D1 == JArr(<<JNum(1)>>)
D2 == JArr(<<JNum(2)>>)
DataOf(d) == JObj(<<"data">>, <<d>>)

TestCases ==
    { TestCase("A", ModelX, TRUE, Returns(DataOf(D1))),
      TestCase("B", ModelY, TRUE, Returns(DataOf(D1))),
      TestCase("C", NoModel, TRUE, Returns(DataOf(D1))),
      TestCase("A", StrModel(<<>>), TRUE, Returns(DataOf(D2))),
      TestCase("A", ModelX, TRUE, Returns(D1)),
      TestCase("C", NullModel, TRUE, Throws),
      TestCase("B", ModelX, TRUE, Returns(JUndef)),
      TestCase("B", NoModel, FALSE, Returns(DataOf(D1))) }

TestDataOf(k, cs) == [state |-> k, cases |-> cs]
TestDatas ==
    {TestDataOf("missing", <<>>), TestDataOf("unparsable", <<>>)}
        \cup {TestDataOf("loaded", cs) : cs \in SeqsUpTo(TestCases, MaxCases)}

ExpectedDataOf(k, ecs) == [state |-> k, cases |-> ecs]
ExpectedDatas ==
    { ExpectedDataOf("missing", <<>>),
      ExpectedDataOf("unparsable", <<>>),
      ExpectedDataOf("loaded", <<>>),
      ExpectedDataOf("loaded", <<ExpectedEntry("A", ModelX, D1)>>),
      ExpectedDataOf("loaded", <<ExpectedEntry("A", ModelY, D2), ExpectedEntry("A", ModelX, D1)>>),
      ExpectedDataOf("loaded", <<ExpectedEntry("A", NoModel, D1), ExpectedEntry("B", NoModel, JUndef),
                                 ExpectedEntry("C", NoModel, D2)>>),
      ExpectedDataOf("loaded", <<ExpectedEntry("C", ModelX, D1), ExpectedEntry("B", NoModel, D1)>>) }

Stems ==
    { <<"V", "-", "X">>, <<"V", "X">>, <<"V", "-", "Y">>, <<"-", "X">>,
      <<"V", "-">>, <<"V", "-", "X", "-", "Y">> }

RunnerCodecs ==
    { FullCodec,
      CodecText(TRUE, TRUE, TRUE, TRUE, FALSE, FALSE),
      CodecText(TRUE, TRUE, TRUE, TRUE, TRUE, FALSE) }

NoTests == TestResult(<<>>, <<>>, <<>>)

TestsInit ==
    /\ tCodec \in RunnerCodecs
    /\ tStem \in Stems
    /\ tData \in TestDatas
    /\ tExpected \in ExpectedDatas
    /\ tPc = "ready"
    /\ tCheck = NoTests

TestsIdle ==
    /\ tCodec = FullCodec
    /\ tStem = <<"V">>
    /\ tData = TestDataOf("missing", <<>>)
    /\ tExpected = ExpectedDataOf("missing", <<>>)
    /\ tPc = "idle"
    /\ tCheck = NoTests

TestsStep ==
    /\ tPc = "ready"
    /\ tCheck' = runTestDataValidation(host, tCodec, tStem, tData, tExpected)
    /\ host' = HostAfterTests(host, tCodec, tStem, tData)
    /\ tPc' = "done"
    /\ UNCHANGED <<tCodec, tStem, tData, tExpected, deVars, fVars, vVars, rVars, bVars, sVars, toolVars>>

(***************************************************************************)
(* The checks of validate-profile.js                                       *)
(***************************************************************************)
\* validateYAMLSyntax: loadYAML under try/catch; yaml is what loadYAML does on the
\* file: "ok", "readError" (readFileSync throws) or "syntaxError" (yaml.load throws).
validateYAMLSyntax(yaml) ==
    IF yaml = "ok" THEN Result(<<>>, <<>>)
    ELSE Result(<<Err("YAML syntax error: %s", yaml)>>, <<>>)

\* validateSchema: the schema file is not part of the sources; it requires the
\* top-level keys codec, datatype, lorawan, model and vendor of an object, and
\* `rest` stands for whatever else it constrains.
validateSchema(profile, rest) ==
    IF /\ profile.kind = "object"
       /\ profile.codec.kind # "absent"
       /\ profile.datatype.kind # "absent"
       /\ profile.lorawan.kind # "absent"
       /\ profile.model # "absent"
       /\ profile.vendor # "absent"
       /\ rest
    THEN Result(<<>>, <<>>)
    ELSE Result(<<Err("%s %s", "schema")>>, <<>>)

\* Mutant: decodeUplink is the only required function.
requiredFunctionsDecodeUplinkOnly == <<"decodeUplink">>

requiredFunctions == <<"Decode", "decodeUplink">>
optionalFunctions == <<"Encode", "encodeDownlink">>

\* codecSource.includes(func)
CodecIncludes(codec, func) ==
    /\ codec.kind = "text"
    /\ CASE func = "Decode" -> codec.hasDecode
         [] func = "decodeUplink" -> codec.hasDecodeUplink
         [] func = "Encode" -> codec.hasEncode
         [] OTHER -> codec.hasEncodeDownlink

\* codecSource.includes is not there to call on undefined, null or a number.
CodecSyntaxThrows(codec) == codec.kind \in {"absent", "null", "number"}

validateCodecSyntax(codec) ==
    IF CodecSyntaxThrows(codec) THEN Thrown
    ELSE Result(
            Flatten([i \in 1..Len(requiredFunctions) |->
                IF CodecIncludes(codec, requiredFunctions[i]) THEN <<>>
                ELSE <<Err("Missing required function: %s", requiredFunctions[i])>>])
              \o (IF CodecLoads(codec) THEN <<>> ELSE <<Err("JavaScript syntax error: %s", "")>>),
            Flatten([i \in 1..Len(optionalFunctions) |->
                IF CodecIncludes(codec, optionalFunctions[i]) THEN <<>>
                ELSE <<Err("Optional function not found: %s", optionalFunctions[i])>>]))

\* A profile file: the base name without extension, the extension, and whether the
\* file lies under profiles/<vendor>/ with a name that does not start with <vendor>.
File(st, ex, vm) == [stem |-> st, ext |-> ex, vendorMismatch |-> vm]

\* /^[A-Za-z0-9]+-[A-Za-z0-9-]+\.(yaml|yml)$/ on names made of letters and hyphens
NamePatternMatches(file) ==
    /\ file.ext \in {".yaml", ".yml"}
    /\ \E h \in 2..(Len(file.stem) - 1) :
          file.stem[h] = "-" /\ \A j \in 1..(h - 1) : file.stem[j] # "-"

validateFileNaming(file) ==
    Result(IF file.ext \notin {".yaml", ".yml"}
           THEN <<Err("File must have .yaml or .yml extension", "")>>
           ELSE <<>>,
           (IF NamePatternMatches(file) THEN <<>>
            ELSE <<Err("Filename should follow format: Vendor-Model.yaml", "")>>)
             \o (IF file.vendorMismatch
                 THEN <<Err("Filename should start with vendor name: %s", "")>>
                 ELSE <<>>))

(***************************************************************************)
(* The checks of a parsed profile, one call of each                        *)
(***************************************************************************)
FieldProfiles == ProfilesOf(Models, {"text"}, Codecs, Datatypes, Lorawans)

FieldsInit ==
    /\ fProfile \in FieldProfiles
    /\ fVersion \in ParserVersions
    /\ fPc = "ready"
    /\ fFields = Thrown
    /\ fBacnet = Thrown
    /\ fCodec = Thrown

FieldsIdle ==
    /\ fProfile = NotAnObject("undefined")
    /\ fVersion = "classSupport"
    /\ fPc = "idle"
    /\ fFields = Thrown
    /\ fBacnet = Thrown
    /\ fCodec = Thrown

\* The checks validateProfile applies to a parsed profile, each on its own:
\* validateRequiredFields(profile), validateCodecSyntax(profile.codec) and
\* validateBACnetObjects(profile).
FieldsStep ==
    /\ fPc = "ready"
    /\ fFields' = validateRequiredFields(fProfile, fVersion)
    /\ fCodec' = validateCodecSyntax(CodecIn(host, fProfile.codec))
    /\ fBacnet' = validateBACnetObjects(fProfile)
    /\ host' = HostAfter(host, fProfile.codec)
    /\ fPc' = "done"
    /\ UNCHANGED <<fProfile, fVersion, deVars, tVars, vVars, rVars, bVars, sVars, toolVars>>

(***************************************************************************)
(* validateProfile (validate-profile.js): one step per stage               *)
(***************************************************************************)
PipelineProfiles ==
    ProfilesOf({"absent", "text"}, {"text"},
               {CodecOfKind("absent"), CodecOfKind("empty"), CodecOfKind("number"), FullCodec,
                CodecText(FALSE, TRUE, TRUE, TRUE, TRUE, TRUE),
                CodecText(TRUE, FALSE, TRUE, TRUE, TRUE, FALSE),
                CodecText(TRUE, TRUE, TRUE, TRUE, FALSE, FALSE)},
               {DatatypeOfKind("absent"), DatatypeOfKind("string"),
                [kind |-> "object", channels |-> <<>>],
                [kind |-> "object", channels |-> <<Config(TRUE, "AnalogInputObject")>>],
                [kind |-> "object", channels |-> <<NullConfig>>],
                [kind |-> "object", channels |-> <<Config(TRUE, "FooObject")>>]},
               {LorawanOfKind("absent"),
                LorawanObject(LorawanKeys, {}),
                LorawanObject({"macVersion", "supportClassB", "supportClassC"}, {})})

PipelineFiles ==
    { File(<<"V", "-", "X">>, ".yaml", FALSE),
      File(<<"V", "-", "X">>, ".yml", FALSE),
      File(<<"V", "-", "X">>, ".txt", FALSE),
      File(<<"V", "X">>, ".yaml", TRUE),
      File(<<"V", "-", "X">>, "", FALSE) }

PassingCase == TestCase("A", ModelX, TRUE, Returns(DataOf(D1)))

\* The fixtures next to the profile: test-data.json and expected-output.json.
Fixture(d, e) == [data |-> d, expectedData |-> e]
PipelineFixtures ==
    { Fixture(TestDataOf("missing", <<>>), ExpectedDataOf("missing", <<>>)),
      Fixture(TestDataOf("unparsable", <<>>), ExpectedDataOf("missing", <<>>)),
      Fixture(TestDataOf("loaded", <<PassingCase>>),
              ExpectedDataOf("loaded", <<ExpectedEntry("A", ModelX, D1)>>)),
      Fixture(TestDataOf("loaded", <<PassingCase>>),
              ExpectedDataOf("loaded", <<ExpectedEntry("A", ModelX, D2)>>)) }

\* options.runTests as the caller passes it: not at all, true or false.
RunTestsOptions == {"absent", "true", "false"}

\* Mutant: the tests run only when options.runTests is true.
RunTestsIsTrue(runTests) == runTests = "true"

\* options.runTests !== false
RunTestsNotFalse(runTests) == runTests # "false"

Stages == <<"yamlSyntax", "schema", "requiredFields", "codec", "bacnet", "naming">>
StageSet == {Stages[i] : i \in 1..Len(Stages)}
NotRun == Result(<<>>, <<>>)

ValidateInit ==
    /\ vIn \in [yaml : {"ok"}, profile : PipelineProfiles, file : PipelineFiles,
                runTests : RunTestsOptions, schemaRest : BOOLEAN, version : ParserVersions,
                fixture : PipelineFixtures]
            \cup [yaml : {"readError", "syntaxError"}, profile : {NotAnObject("undefined")},
                  file : PipelineFiles, runTests : RunTestsOptions, schemaRest : {TRUE},
                  version : {"classSupport"}, fixture : PipelineFixtures]
    /\ vPc = "start"
    /\ vValid = TRUE
    /\ vOrder = <<>>
    /\ vChecks = [n \in StageSet |-> NotRun]
    /\ vTests = NoTests

ValidateIdle ==
    /\ vIn = [yaml |-> "ok", profile |-> NotAnObject("undefined"),
              file |-> File(<<"V">>, ".yaml", FALSE), runTests |-> "false",
              schemaRest |-> TRUE, version |-> "classSupport",
              fixture |-> Fixture(TestDataOf("missing", <<>>), ExpectedDataOf("missing", <<>>))]
    /\ vPc = "idle"
    /\ vValid = TRUE
    /\ vOrder = <<>>
    /\ vChecks = [n \in StageSet |-> NotRun]
    /\ vTests = NoTests

\* report.checks[name] = check
Record(name, check) ==
    /\ vChecks' = [vChecks EXCEPT ![name] = check]
    /\ vOrder' = Append(vOrder, name)

\* Mutant: the report is not returned when the YAML does not load.
AfterYamlSyntaxNoReturn(check) == "load"

\* if (!yamlCheck.valid) { report.valid = false; return report; }
AfterYamlSyntax(check) == IF ~check.valid THEN "done" ELSE "load"

YamlStage ==
    /\ vPc = "start"
    /\ LET check == validateYAMLSyntax(vIn.yaml)
       IN  /\ Record("yamlSyntax", check)
           /\ vValid' = (vValid /\ check.valid)
           /\ vPc' = AfterYamlSyntax(check)
    /\ UNCHANGED <<vIn, vTests, deVars, fVars, tVars, rVars, bVars, sVars, host, toolVars>>

\* const profile = loadYAML(filePath), outside any try/catch
LoadProfile ==
    /\ vPc = "load"
    /\ vPc' = IF vIn.yaml = "ok" THEN "schema" ELSE "threw"
    /\ UNCHANGED <<vIn, vValid, vOrder, vChecks, vTests, deVars, fVars, tVars, rVars,
                   bVars, sVars, host, toolVars>>

\* A stage whose check sets report.valid = false when it fails; an exception of the
\* check leaves validateProfile.
Stage(at, name, check, next) ==
    /\ vPc = at
    /\ IF check.threw
       THEN vPc' = "threw" /\ UNCHANGED <<vValid, vOrder, vChecks>>
       ELSE /\ Record(name, check)
            /\ vValid' = (vValid /\ check.valid)
            /\ vPc' = next
    /\ UNCHANGED <<vIn, vTests, deVars, fVars, tVars, rVars, bVars, sVars, toolVars>>

SchemaStage ==
    /\ Stage("schema", "schema", validateSchema(vIn.profile, vIn.schemaRest), "requiredFields")
    /\ UNCHANGED host

FieldsStage ==
    /\ Stage("requiredFields", "requiredFields",
             validateRequiredFields(vIn.profile, vIn.version), "codec")
    /\ UNCHANGED host

\* validateCodecSyntax runs the codec script in a sandbox of its own.
CodecStage ==
    /\ Stage("codec", "codec", validateCodecSyntax(CodecIn(host, vIn.profile.codec)), "bacnet")
    /\ host' = HostAfter(host, vIn.profile.codec)

BacnetStage ==
    /\ Stage("bacnet", "bacnet", validateBACnetObjects(vIn.profile), "naming")
    /\ UNCHANGED host

\* The naming check is recorded and printed; report.valid is not touched.
NamingStage ==
    /\ vPc = "naming"
    /\ Record("naming", validateFileNaming(vIn.file))
    /\ vPc' = IF RunTestsNotFalse(vIn.runTests) THEN "tests" ELSE "done"
    /\ UNCHANGED <<vIn, vValid, vTests, deVars, fVars, tVars, rVars, bVars, sVars, host, toolVars>>

TestsStage ==
    /\ vPc = "tests"
    /\ vTests' = runTestDataValidation(host, vIn.profile.codec, vIn.file.stem,
                                       vIn.fixture.data, vIn.fixture.expectedData)
    /\ host' = HostAfterTests(host, vIn.profile.codec, vIn.file.stem, vIn.fixture.data)
    /\ vValid' = (vValid /\ vTests'.valid)
    /\ vOrder' = Append(vOrder, "tests")
    /\ vPc' = "done"
    /\ UNCHANGED <<vIn, vChecks, deVars, fVars, tVars, rVars, bVars, sVars, toolVars>>

ValidateNext ==
    \/ YamlStage
    \/ LoadProfile
    \/ SchemaStage
    \/ FieldsStage
    \/ CodecStage
    \/ BacnetStage
    \/ NamingStage
    \/ TestsStage

(***************************************************************************)
(* validateProfile as one call: what it returns, or that it throws, and    *)
(* the built-ins it leaves behind.                                         *)
(***************************************************************************)
Outcome(t, v, h) == [threw |-> t, valid |-> v, host |-> h]

validateProfile(h, in) ==
    LET yamlCheck == validateYAMLSyntax(in.yaml)
        schemaCheck == validateSchema(in.profile, in.schemaRest)
        fieldsCheck == validateRequiredFields(in.profile, in.version)
        codecCheck == validateCodecSyntax(CodecIn(h, in.profile.codec))
        h1 == HostAfter(h, in.profile.codec)
        bacnetCheck == validateBACnetObjects(in.profile)
        testCheck == runTestDataValidation(h1, in.profile.codec, in.file.stem,
                                           in.fixture.data, in.fixture.expectedData)
        h2 == HostAfterTests(h1, in.profile.codec, in.file.stem, in.fixture.data)
        checksValid == /\ schemaCheck.valid
                       /\ fieldsCheck.valid
                       /\ codecCheck.valid
                       /\ bacnetCheck.valid
    IN  IF ~yamlCheck.valid THEN Outcome(FALSE, FALSE, h)
        ELSE IF fieldsCheck.threw \/ codecCheck.threw THEN Outcome(TRUE, FALSE, h)
        ELSE IF bacnetCheck.threw THEN Outcome(TRUE, FALSE, h1)
        ELSE IF RunTestsNotFalse(in.runTests)
        THEN Outcome(FALSE, checksValid /\ testCheck.valid, h2)
        ELSE Outcome(FALSE, checksValid, h1)

(***************************************************************************)
(* validate-all.js: findYAMLFiles                                          *)
(*   A directory is the list of its entries in readdir order.  An entry    *)
(*   has a name (stem and extension), is a directory (with entries) or a   *)
(*   file (with the contents of a profile, named by a ContentId).          *)
(***************************************************************************)
Name(st, ex) == [stem |-> st, ext |-> ex]
DirName(d) == Name(<<d>>, "")
FileEntry(nm, c) == [name |-> nm, dir |-> FALSE, entries |-> <<>>, content |-> c]
DirEntry(d, es) == [name |-> DirName(d), dir |-> TRUE, entries |-> es, content |-> ""]

\* Mutant: the tests directories are searched like any other.
SkippedDirsWithoutTests == {DirName("node_modules"), DirName(".git")}

\* file === 'node_modules' || file === '.git' || file === 'tests'
SkippedDirs == {DirName("node_modules"), DirName(".git"), DirName("tests")}

\* file.endsWith('.yaml') || file.endsWith('.yml')
EndsWithYaml(nm) == nm.ext \in {".yaml", ".yml"}

Found(path, c) == [path |-> path, content |-> c]

RECURSIVE findYAMLFiles(_, _, _)
findYAMLFiles(dir, entries, fileList) ==
    IF entries = <<>> THEN fileList
    ELSE LET e == Head(entries)
             filePath == Append(dir, e.name)
             after == IF e.dir
                      THEN IF e.name \in SkippedDirs THEN fileList
                           ELSE findYAMLFiles(filePath, e.entries, fileList)
                      ELSE IF EndsWithYaml(e.name)
                      THEN Append(fileList, Found(filePath, e.content))
                      ELSE fileList
         IN  findYAMLFiles(dir, Tail(entries), after)

\* The directories that are scanned.
MaxEntries == 3

XYaml == FileEntry(Name(<<"V", "-", "X">>, ".yaml"), "good")
YYml == FileEntry(Name(<<"V", "-", "Y">>, ".yml"), "good")
NJson == FileEntry(Name(<<"n">>, ".json"), "good")
TestsYaml == FileEntry(Name(<<"tests">>, ".yaml"), "good")

ScanEntries ==
    {XYaml, YYml, NJson, TestsYaml}
        \cup {DirEntry(d, es) : d \in {"V", "tests", "node_modules", ".git"},
                                es \in {<<XYaml>>, <<YYml, NJson>>}}
        \cup { DirEntry("V", <<XYaml, DirEntry("tests", <<YYml>>)>>),
               DirEntry("tests", <<DirEntry("V", <<XYaml>>)>>),
               DirEntry("V", <<DirEntry("W", <<YYml>>), XYaml>>) }

DistinctNames(es) == \A i, j \in 1..Len(es) : i # j => es[i].name # es[j].name

ScanTrees == {es \in SeqsUpTo(ScanEntries, MaxEntries) : DistinctNames(es)}

\* Flat directories of profiles of every kind.
ContentIds == {"good", "noModel", "syntaxError", "emptyDoc", "numberCodec", "counting"}

ContentTrees ==
    {[i \in 1..Len(cs) |-> FileEntry(Name(<<"V", "-", NumStr[i]>>, ".yaml"), cs[i])] :
        cs \in SeqsUpTo(ContentIds, MaxEntries)}

GoodProfile ==
    [kind |-> "object", model |-> "text", vendor |-> "text", codec |-> FullCodec,
     datatype |-> [kind |-> "object", channels |-> <<Config(TRUE, "AnalogInputObject")>>],
     lorawan |-> LorawanObject(LorawanKeys, {})]

\* What loadYAML does on the file, and the profile it returns.
ContentOf(c) ==
    CASE c = "good" -> [yaml |-> "ok", profile |-> GoodProfile]
      [] c = "noModel" -> [yaml |-> "ok", profile |-> [GoodProfile EXCEPT !.model = "absent"]]
      [] c = "syntaxError" -> [yaml |-> "syntaxError", profile |-> NotAnObject("undefined")]
      [] c = "emptyDoc" -> [yaml |-> "ok", profile |-> NotAnObject("undefined")]
      [] c = "numberCodec" ->
             [yaml |-> "ok", profile |-> [GoodProfile EXCEPT !.codec = CodecOfKind("number")]]
      [] OTHER -> [yaml |-> "ok", profile |-> [GoodProfile EXCEPT !.codec = CountingCodec]]

\* validateProfile(file, validateOptions) with validateOptions = {runTests: false}
BatchInput(found) ==
    LET nm == found.path[Len(found.path)]
    IN  [yaml |-> ContentOf(found.content).yaml,
         profile |-> ContentOf(found.content).profile,
         file |-> File(nm.stem, nm.ext, FALSE),
         runTests |-> "false", schemaRest |-> TRUE, version |-> "classSupport",
         fixture |-> Fixture(TestDataOf("missing", <<>>), ExpectedDataOf("missing", <<>>))]

(***************************************************************************)
(* validate-all.js: main                                                   *)
(***************************************************************************)
Running == -1
NoResults == [total |-> 0, passed |-> 0, failed |-> 0, files |-> <<>>]
FileResult(path, st) == [file |-> path, status |-> st]

BatchInit ==
    /\ bArgs \in [help : BOOLEAN, dirExists : BOOLEAN]
    /\ bTree \in ScanTrees \cup ContentTrees
    /\ bPc = "start"
    /\ bFiles = <<>>
    /\ bI = 0
    /\ bResults = NoResults
    /\ bListed = <<>>
    /\ bExit = Running

BatchIdle ==
    /\ bArgs = [help |-> FALSE, dirExists |-> TRUE]
    /\ bTree = <<>>
    /\ bPc = "idle"
    /\ bFiles = <<>>
    /\ bI = 0
    /\ bResults = NoResults
    /\ bListed = <<>>
    /\ bExit = Running

\* process.exit(code)
Exit(code) == bPc' = "exited" /\ bExit' = code

\* From the arguments to the start of the loop.
BatchStart ==
    /\ bPc = "start"
    /\ LET yamlFiles == findYAMLFiles(<<DirName("profiles")>>, bTree, <<>>)
       IN  IF bArgs.help
           THEN Exit(0) /\ UNCHANGED <<bFiles, bI, bResults>>
           ELSE IF ~bArgs.dirExists
           THEN Exit(1) /\ UNCHANGED <<bFiles, bI, bResults>>
           ELSE IF Len(yamlFiles) = 0
           THEN Exit(0) /\ bFiles' = yamlFiles /\ UNCHANGED <<bI, bResults>>
           ELSE /\ bFiles' = yamlFiles
                /\ bResults' = [NoResults EXCEPT !.total = Len(yamlFiles)]
                /\ bI' = 1
                /\ bPc' = "loop"
                /\ UNCHANGED bExit
    /\ UNCHANGED <<bArgs, bTree, bListed, deVars, fVars, tVars, vVars, rVars, sVars, host, toolVars>>

\* The body of the loop: try { validateProfile } catch.
Tally(results, path, out) ==
    IF out.threw
    THEN [results EXCEPT !.failed = @ + 1, !.files = Append(@, FileResult(path, "ERROR"))]
    ELSE IF out.valid
    THEN [results EXCEPT !.passed = @ + 1, !.files = Append(@, FileResult(path, "PASS"))]
    ELSE [results EXCEPT !.failed = @ + 1, !.files = Append(@, FileResult(path, "FAIL"))]

\* Mutant: an exception of validateProfile ends the loop.
AfterFileStopOnThrow(i, n, out) == IF out.threw THEN n + 1 ELSE i + 1

\* i++, after the try/catch
AfterFile(i, n, out) == i + 1

BatchValidate ==
    /\ bPc = "loop"
    /\ bI <= Len(bFiles)
    /\ LET out == validateProfile(host, BatchInput(bFiles[bI]))
       IN  /\ bResults' = Tally(bResults, bFiles[bI].path, out)
           /\ host' = out.host
           /\ bI' = AfterFile(bI, Len(bFiles), out)
    /\ UNCHANGED <<bArgs, bTree, bPc, bFiles, bListed, bExit,
                   deVars, fVars, tVars, vVars, rVars, sVars, toolVars>>

\* Mutant: the exit status is always 0.
ExitStatusZero(results) == 0

\* process.exit(results.failed > 0 ? 1 : 0)
ExitStatus(results) == IF results.failed > 0 THEN 1 ELSE 0

\* The paths listed as failed: the entries whose status is not PASS (in the JSON
\* output, the same entries of results.files).
FailedFiles(results) ==
    LET nonPass == SelectSeq(results.files, LAMBDA r : r.status # "PASS")
    IN  [k \in 1..Len(nonPass) |-> nonPass[k].file]

BatchFinish ==
    /\ bPc = "loop"
    /\ bI > Len(bFiles)
    /\ bListed' = FailedFiles(bResults)
    /\ Exit(ExitStatus(bResults))
    /\ UNCHANGED <<bArgs, bTree, bFiles, bI, bResults,
                   deVars, fVars, tVars, vVars, rVars, sVars, host, toolVars>>

BatchNext ==
    \/ BatchStart
    \/ BatchValidate
    \/ BatchFinish

(***************************************************************************)
(* validateProfile run a second time on the same file, in the same process *)
(***************************************************************************)
RerunProfiles == {ContentOf(c).profile : c \in ContentIds}

NoReport == [threw |-> FALSE, valid |-> TRUE, order |-> <<>>,
             checks |-> [n \in StageSet |-> NotRun], tests |-> NoTests]

RerunInit ==
    /\ vIn \in [yaml : {"ok"}, profile : RerunProfiles,
                 file : {File(<<"V", "-", "X">>, ".yaml", FALSE)},
                 runTests : RunTestsOptions, schemaRest : {TRUE}, version : {"classSupport"},
                 fixture : PipelineFixtures]
            \cup [yaml : {"syntaxError"}, profile : {NotAnObject("undefined")},
                  file : {File(<<"V", "-", "X">>, ".yaml", FALSE)},
                  runTests : RunTestsOptions, schemaRest : {TRUE},
                  version : {"classSupport"}, fixture : PipelineFixtures]
    /\ vPc = "start"
    /\ vValid = TRUE
    /\ vOrder = <<>>
    /\ vChecks = [n \in StageSet |-> NotRun]
    /\ vTests = NoTests
    /\ vRun = 1
    /\ vFirst = NoReport

\* What the call in progress has given: the report, or an exception.
CurrentReport ==
    [threw |-> vPc = "threw", valid |-> vValid, order |-> vOrder, checks |-> vChecks,
     tests |-> vTests]

\* The caller keeps the first report and calls validateProfile(filePath, options)
\* again; every call starts from a new report object.
Rerun ==
    /\ vPc \in {"done", "threw"}
    /\ vRun = 1
    /\ vFirst' = CurrentReport
    /\ vRun' = 2
    /\ vPc' = "start"
    /\ vValid' = TRUE
    /\ vOrder' = <<>>
    /\ vChecks' = [n \in StageSet |-> NotRun]
    /\ vTests' = NoTests
    /\ UNCHANGED <<vIn, deVars, fVars, tVars, bVars, sVars, host, toolVars>>

\* Before either run the process validates another file.
ValidateOther ==
    /\ vPc = "start"
    /\ \E c \in {"good", "counting"} :
          host' = validateProfile(host,
                      BatchInput(Found(<<Name(<<"V", "-", "Y">>, ".yaml")>>, c))).host
    /\ UNCHANGED <<vVars, rVars, deVars, fVars, tVars, bVars, sVars, toolVars>>

RerunNext ==
    \/ ValidateNext
    \/ Rerun
    \/ ValidateOther

(***************************************************************************)
(* test-codec.js: the testDecode and testEncode calls of one process       *)
(***************************************************************************)
MaxCalls == 3

SandboxCodecs ==
    { FullCodec, CountingCodec,
      CodecText(TRUE, TRUE, TRUE, FALSE, TRUE, TRUE),
      CodecText(TRUE, TRUE, TRUE, TRUE, FALSE, FALSE) }

DecodeInputs ==
    { TestCase("A", NoModel, TRUE, Returns(DataOf(D1))),
      TestCase("B", NoModel, TRUE, Throws),
      TestCase("C", NoModel, FALSE, Returns(DataOf(D1))) }

\* The data to encode, with what encodeDownlink does on them.
EncodeInputs ==
    { TestCase("E", NoModel, TRUE, Returns(JObj(<<"bytes">>, <<D1>>))),
      TestCase("F", NoModel, TRUE, Throws) }

Call(fn, input, res) == [fn |-> fn, input |-> input, result |-> res]

SandboxInit ==
    /\ sCodec \in SandboxCodecs
    /\ sCalls = <<>>

\* testDecode(codecSource, fPort, uplinkData): a new sandbox object, the script run
\* in it, decodeUplink called.
CallDecode ==
    /\ Len(sCalls) < MaxCalls
    /\ \E tc \in DecodeInputs :
          sCalls' = Append(sCalls, Call("decode", tc, testDecode(CodecIn(host, sCodec), tc)))
    /\ host' = HostAfter(host, sCodec)
    /\ UNCHANGED <<sCodec, deVars, fVars, tVars, vVars, rVars, bVars, toolVars>>

\* testEncode(codecSource, data)
CallEncode ==
    /\ Len(sCalls) < MaxCalls
    /\ \E d \in EncodeInputs :
          sCalls' = Append(sCalls, Call("encode", d, testEncode(CodecIn(host, sCodec), d.ret)))
    /\ host' = HostAfter(host, sCodec)
    /\ UNCHANGED <<sCodec, deVars, fVars, tVars, vVars, rVars, bVars, toolVars>>

SandboxNext ==
    \/ CallDecode
    \/ CallEncode

(***************************************************************************)
(* validate-profile.js: main, the command line of one profile              *)
(***************************************************************************)
\* JSON.stringify(v) throws a TypeError on a BigInt, wherever it sits in v.
RECURSIVE StringifyThrows(_)
StringifyThrows(v) ==
    \/ v.t = "bigint"
    \/ \E i \in 1..Len(v.items) : StringifyThrows(v.items[i])

\* What an entry of results carries besides strings: the decode result of a PASS,
\* the two outputs of a mismatch.
EntryValues(entry, testData) ==
    IF entry.status = "PASS" THEN <<testData.cases[entry.idx].ret.v>>
    ELSE IF entry.matched = "false" THEN <<entry.actualOutput, entry.expectedOutput>>
    ELSE <<>>

\* JSON.stringify(report, null, 2) throws.
ReportStringifyThrows(h, in) ==
    LET testCheck == runTestDataValidation(HostAfter(h, in.profile.codec), in.profile.codec,
                                           in.file.stem, in.fixture.data,
                                           in.fixture.expectedData)
    IN  /\ RunTestsNotFalse(in.runTests)
        /\ \E k \in 1..Len(testCheck.results) :
              LET vs == EntryValues(testCheck.results[k], in.fixture.data)
              IN  \E j \in 1..Len(vs) : StringifyThrows(vs[j])

BigCase == TestCase("A", ModelX, TRUE, Returns(DataOf(JArr(<<JBigInt(1)>>))))

CliFixtures ==
    { Fixture(TestDataOf("missing", <<>>), ExpectedDataOf("missing", <<>>)),
      Fixture(TestDataOf("loaded", <<PassingCase>>),
              ExpectedDataOf("loaded", <<ExpectedEntry("A", ModelX, D1)>>)),
      Fixture(TestDataOf("loaded", <<PassingCase>>),
              ExpectedDataOf("loaded", <<ExpectedEntry("A", ModelX, D2)>>)),
      Fixture(TestDataOf("loaded", <<BigCase>>), ExpectedDataOf("missing", <<>>)),
      Fixture(TestDataOf("loaded", <<BigCase>>),
              ExpectedDataOf("loaded", <<ExpectedEntry("A", ModelX, D1)>>)) }

\* args[0]: no argument at all, the empty string, a path that does not exist, or a
\* file with the contents named.
CliFiles == {"none", "empty", "missing"} \cup ContentIds

CliArgs ==
    [file : CliFiles, noTests : BOOLEAN, json : BOOLEAN, help : BOOLEAN,
     fixture : CliFixtures]

\* options = {runTests: !args.includes('--no-tests'), jsonOutput: ...}
CliInput(args) ==
    [yaml |-> ContentOf(args.file).yaml,
     profile |-> ContentOf(args.file).profile,
     file |-> File(<<"V", "-", "X">>, ".yaml", FALSE),
     runTests |-> IF args.noTests THEN "false" ELSE "true",
     schemaRest |-> TRUE, version |-> "classSupport",
     fixture |-> args.fixture]

Exited(code, printed, h) == [exit |-> code, json |-> printed, host |-> h]

\* main: the help text, the two tests of the path, then validateProfile and
\* JSON.stringify(report) under one try/catch whose handler exits with 1.
main(h, args) ==
    LET in == CliInput(args)
        out == validateProfile(h, in)
    IN  IF args.file = "none" \/ args.help THEN Exited(0, FALSE, h)
        ELSE IF args.file = "empty" THEN Exited(1, FALSE, h)
        ELSE IF args.file = "missing" THEN Exited(1, FALSE, h)
        ELSE IF out.threw THEN Exited(1, FALSE, out.host)
        ELSE IF args.json /\ ReportStringifyThrows(h, in)
        THEN Exited(1, FALSE, out.host)
        ELSE Exited(IF out.valid THEN 0 ELSE 1, args.json, out.host)

CliInit ==
    /\ mArgs \in CliArgs
    /\ mPc = "start"
    /\ mExit = Running
    /\ mJson = FALSE

CliIdle ==
    /\ mArgs = [file |-> "none", noTests |-> FALSE, json |-> FALSE, help |-> FALSE,
                fixture |-> Fixture(TestDataOf("missing", <<>>),
                                    ExpectedDataOf("missing", <<>>))]
    /\ mPc = "idle"
    /\ mExit = Running
    /\ mJson = FALSE

CliMain ==
    /\ mPc = "start"
    /\ mPc' = "exited"
    /\ mExit' = main(host, mArgs).exit
    /\ mJson' = main(host, mArgs).json
    /\ host' = main(host, mArgs).host
    /\ UNCHANGED <<mArgs, callVars, cVars, gVars, xVars, uVars>>

(***************************************************************************)
(* update-registry.js and validate-registry.js                             *)
(*   profiles/ is the list of its vendor directories in readdir order; a   *)
(*   vendor directory has the models its tests name and its YAML files.    *)
(***************************************************************************)
MaxVendors == 2
MaxFiles == 2

\* Names of vendor directories.  Any directory name is possible, the names of the
\* members of Object.prototype included.
VendorNames == {"Dragino", "Senso8", "constructor"}
ObjectPrototypeNames == {"constructor"}

ProfileFile(m, ex, ok) == [model |-> m, ext |-> ex, parses |-> ok]
RegistryFiles ==
    { ProfileFile("X", ".yaml", TRUE), ProfileFile("X", ".yml", TRUE),
      ProfileFile("Y", ".yaml", TRUE), ProfileFile("Y", ".yml", FALSE) }

Distinct(xs) == \A i, j \in 1..Len(xs) : i # j => xs[i] # xs[j]

VendorDir(v, ms, fs) == [vendor |-> v, modelsWithTests |-> ms, files |-> fs]
VendorDirs ==
    { VendorDir(v, ms, fs) :
        v \in VendorNames, ms \in {{}, {"X"}},
        fs \in {xs \in SeqsUpTo(RegistryFiles, MaxFiles) : Distinct(xs)} }

RegistryTrees ==
    { ds \in SeqsUpTo(VendorDirs, MaxVendors) :
        \A i, j \in 1..Len(ds) : i # j => ds[i].vendor # ds[j].vendor }

RegistryEntry(v, f, tests) ==
    [vendor |-> v, model |-> f.model, path |-> <<v, f.model, f.ext>>, hasTests |-> tests]

\* The inner loop of scanProfiles: a file that does not parse is skipped.
RECURSIVE ScanVendor(_, _)
ScanVendor(d, k) ==
    IF k > Len(d.files) THEN <<>>
    ELSE (IF d.files[k].parses
          THEN <<RegistryEntry(d.vendor, d.files[k], d.files[k].model \in d.modelsWithTests)>>
          ELSE <<>>) \o ScanVendor(d, k + 1)

\* a.vendor.localeCompare(b.vendor), then a.model.localeCompare(b.model)
NameOrder == <<"constructor", "Dragino", "Senso8", "X", "Y">>
Rank(nm) == CHOOSE k \in 1..Len(NameOrder) : NameOrder[k] = nm
ComesBefore(a, b) ==
    IF a.vendor # b.vendor THEN Rank(a.vendor) < Rank(b.vendor)
    ELSE Rank(a.model) < Rank(b.model)

\* profiles.sort(...): a stable sort.
RECURSIVE InsertSorted(_, _)
InsertSorted(sorted, e) ==
    IF sorted = <<>> THEN <<e>>
    ELSE IF ComesBefore(e, Head(sorted)) THEN <<e>> \o sorted
    ELSE <<Head(sorted)>> \o InsertSorted(Tail(sorted), e)

RECURSIVE SortProfiles(_)
SortProfiles(es) ==
    IF es = <<>> THEN <<>>
    ELSE InsertSorted(SortProfiles(SubSeq(es, 1, Len(es) - 1)), es[Len(es)])

scanProfiles(tree) ==
    SortProfiles(Flatten([k \in 1..Len(tree) |-> ScanVendor(tree[k], 1)]))

\* The values of byVendor: a count, or the text that + makes of a function.
Count(n) == [t |-> "num", n |-> n]
FunctionText == [t |-> "str", n |-> 0]
Inherited == [t |-> "function", n |-> 0]
Undefined == [t |-> "undef", n |-> 0]

\* byVendor[v] of an object literal: its own property, else what Object.prototype
\* has under that name, else undefined.
ByVendorGet(byVendor, v) ==
    IF v \in DOMAIN byVendor THEN byVendor[v]
    ELSE IF v \in ObjectPrototypeNames THEN Inherited
    ELSE Undefined

\* (x || 0) + 1
OrZeroPlusOne(x) ==
    IF x.t = "undef" THEN Count(1)
    ELSE IF x.t = "num" THEN Count(x.n + 1)
    ELSE FunctionText

\* byVendor[v] = (byVendor[v] || 0) + 1
CountVendor(byVendor, v) ==
    [k \in DOMAIN byVendor \cup {v} |->
        IF k = v THEN OrZeroPlusOne(ByVendorGet(byVendor, v)) ELSE byVendor[k]]

Statistics(bv, wt, wo) == [byVendor |-> bv, withTests |-> wt, withoutTests |-> wo]

RECURSIVE generateStatisticsFrom(_, _, _)
generateStatisticsFrom(profiles, k, st) ==
    IF k > Len(profiles) THEN st
    ELSE generateStatisticsFrom(profiles, k + 1,
            Statistics(CountVendor(st.byVendor, profiles[k].vendor),
                       IF profiles[k].hasTests THEN st.withTests + 1 ELSE st.withTests,
                       IF profiles[k].hasTests THEN st.withoutTests
                       ELSE st.withoutTests + 1))

generateStatistics(profiles) ==
    generateStatisticsFrom(profiles, 1, Statistics(<<>>, 0, 0))

\* The registry object of main, as JSON.stringify writes it and JSON.parse reads it
\* back: counts, strings and booleans come back as they were.
Registry(profiles) ==
    [totalProfiles |-> Len(profiles), profiles |-> profiles,
     statistics |-> generateStatistics(profiles)]

NoRegistry == Registry(<<>>)

\* The three consistency checks of validateRegistry.
VendorCount(profiles, v) == Cardinality({k \in 1..Len(profiles) : profiles[k].vendor = v})
VendorsOf(profiles) == {profiles[k].vendor : k \in 1..Len(profiles)}
WithTestsCount(profiles) == Cardinality({k \in 1..Len(profiles) : profiles[k].hasTests})

ConsistencyWarnings(registry) ==
    (IF Len(registry.profiles) # registry.totalProfiles THEN {"totalProfiles"} ELSE {})
    \cup (IF \E v \in VendorsOf(registry.profiles) :
                ByVendorGet(registry.statistics.byVendor, v)
                    # Count(VendorCount(registry.profiles, v))
          THEN {"byVendor"} ELSE {})
    \cup (IF WithTestsCount(registry.profiles) # registry.statistics.withTests
          THEN {"withTests"} ELSE {})

RegistryInit ==
    /\ gTree \in RegistryTrees
    /\ gPc = "start"
    /\ gFile = NoRegistry
    /\ gWarnings = {}

RegistryIdle ==
    /\ gTree = <<>>
    /\ gPc = "idle"
    /\ gFile = NoRegistry
    /\ gWarnings = {}

\* update-registry.js main
UpdateRegistry ==
    /\ gPc = "start"
    /\ gFile' = Registry(scanProfiles(gTree))
    /\ gPc' = "written"
    /\ UNCHANGED <<gTree, gWarnings, callVars, cVars, mVars, xVars, uVars, host>>

\* validate-registry.js validateRegistry, when the schema accepts the registry.
ValidateRegistry ==
    /\ gPc = "written"
    /\ gWarnings' = ConsistencyWarnings(gFile)
    /\ gPc' = "validated"
    /\ UNCHANGED <<gTree, gFile, callVars, cVars, mVars, xVars, uVars, host>>

\* ... and when it does not: the checks are not reached.
RejectRegistry ==
    /\ gPc = "written"
    /\ gPc' = "rejected"
    /\ UNCHANGED <<gTree, gFile, gWarnings, callVars, cVars, mVars, xVars, uVars, host>>

RegistryNext ==
    \/ UpdateRegistry
    \/ ValidateRegistry
    \/ RejectRegistry

(***************************************************************************)
(* utils/hex-converter.js.  A string is the sequence of its characters.    *)
(***************************************************************************)
MaxBytes == 3
MaxChars == 4

LowerDigits == <<"0", "1", "2", "3", "4", "5", "6", "7", "8", "9",
                 "a", "b", "c", "d", "e", "f">>
UpperDigits == <<"0", "1", "2", "3", "4", "5", "6", "7", "8", "9",
                 "A", "B", "C", "D", "E", "F">>

\* /[\s-]/
IsSpaceOrHyphen(c) == c \in {" ", "\t", "-"}

\* hexString.replace(/[\s-]/g, '')
Cleaned(cs) == SelectSeq(cs, LAMBDA c : ~IsSpaceOrHyphen(c))

\* The value of a hexadecimal digit, -1 for any other character.
DigitValue(c) ==
    IF \E k \in 1..16 : LowerDigits[k] = c
    THEN (CHOOSE k \in 1..16 : LowerDigits[k] = c) - 1
    ELSE IF \E k \in 1..16 : UpperDigits[k] = c
    THEN (CHOOSE k \in 1..16 : UpperDigits[k] = c) - 1
    ELSE -1

\* /^[0-9A-Fa-f]*$/.test(cleaned)
MatchesHex(cs) == \A k \in 1..Len(cs) : DigitValue(cs[k]) >= 0

\* parseInt(cleaned.substr(i, 2), 16) on two hexadecimal digits
ParsePair(c1, c2) == 16 * DigitValue(c1) + DigitValue(c2)

HexResult(t, bs) == [threw |-> t, bytes |-> bs]

hexToBytes(hexString) ==
    LET cleaned == Cleaned(hexString)
    IN  IF ~MatchesHex(cleaned) THEN HexResult(TRUE, <<>>)
        ELSE IF Len(cleaned) % 2 # 0 THEN HexResult(TRUE, <<>>)
        ELSE HexResult(FALSE, [k \in 1..(Len(cleaned) \div 2) |->
                                  ParsePair(cleaned[2 * k - 1], cleaned[2 * k])])

\* b.toString(16) for b in 0..255
ToString16(b) ==
    IF b < 16 THEN <<LowerDigits[b + 1]>>
    ELSE <<LowerDigits[(b \div 16) + 1], LowerDigits[(b % 16) + 1]>>

\* Mutant: no padding.
PadStartNone(cs) == cs

\* .padStart(2, '0')
PadStart2(cs) == IF Len(cs) < 2 THEN <<"0">> \o cs ELSE cs

\* .toUpperCase() on hexadecimal digits
ToUpperCase(cs) == [k \in 1..Len(cs) |-> UpperDigits[DigitValue(cs[k]) + 1]]

RECURSIVE Join(_, _)
Join(parts, sep) ==
    IF parts = <<>> THEN <<>>
    ELSE IF Len(parts) = 1 THEN parts[1]
    ELSE parts[1] \o sep \o Join(Tail(parts), sep)

\* The separator argument: not given (the default, a space) or given.
SepArg(given, cs) == [given |-> given, chars |-> cs]
SeparatorOf(sep) == IF sep.given THEN sep.chars ELSE <<" ">>

bytesToHex(bytes, separator) ==
    Join([k \in 1..Len(bytes) |-> ToUpperCase(PadStart2(ToString16(bytes[k])))],
         SeparatorOf(separator))

ByteValues == {0, 1, 10, 15, 16, 100, 171, 255}
ByteSeqs == SeqsUpTo(ByteValues, MaxBytes)
SepArgs == {SepArg(FALSE, <<>>), SepArg(TRUE, <<" ">>), SepArg(TRUE, <<"-">>),
            SepArg(TRUE, <<>>)}
HexChars == {"0", "A", "f", "G", " ", "-"}
HexStrings == SeqsUpTo(HexChars, MaxChars)

NotParsed == HexResult(FALSE, <<>>)

\* Either bytes to format and read back, or a string to read.
HexInit ==
    /\ \/ xPc = "bytes" /\ xBytes \in ByteSeqs /\ xSep \in SepArgs /\ xText = <<>>
       \/ xPc = "text" /\ xBytes = <<>> /\ xSep = SepArg(FALSE, <<>>) /\ xText \in HexStrings
    /\ xOut = NotParsed

HexIdle ==
    /\ xPc = "idle"
    /\ xBytes = <<>>
    /\ xSep = SepArg(FALSE, <<>>)
    /\ xText = <<>>
    /\ xOut = NotParsed

FormatBytes ==
    /\ xPc = "bytes"
    /\ xText' = bytesToHex(xBytes, xSep)
    /\ xPc' = "formatted"
    /\ UNCHANGED <<xBytes, xSep, xOut, callVars, cVars, mVars, gVars, uVars, host>>

ParseHex ==
    /\ xPc \in {"formatted", "text"}
    /\ xOut' = hexToBytes(xText)
    /\ xPc' = IF xPc = "formatted" THEN "roundTrip" ELSE "parsed"
    /\ UNCHANGED <<xBytes, xSep, xText, callVars, cVars, mVars, gVars, uVars, host>>

HexNext ==
    \/ FormatBytes
    \/ ParseHex

(***************************************************************************)
(* test-codec.js: testDecode, step by step                                 *)
(***************************************************************************)
DecodeSteps == <<"load", "check", "convert", "call">>

\* parseInt(fPort) on the fPort of a test case: a number, a string or nothing.
ParseInt(v) ==
    IF v.t = "num" THEN JNum(v.n)
    ELSE IF v.t = "str" /\ \E x \in 1..Len(NumStr) : NumStr[x] = v.s
    THEN JNum(CHOOSE x \in 1..Len(NumStr) : NumStr[x] = v.s)
    ELSE JNaN

\* The message of the error hexToBytes throws.
HexErrorText(hexString) ==
    IF ~MatchesHex(Cleaned(hexString)) THEN "Invalid hex string"
    ELSE "Hex string length must be even"

DecodeInput(bytes, fPort) == [bytes |-> bytes, fPort |-> fPort, variables |-> JObj(<<>>, <<>>)]

\* testDecode(codecSource, fPort, uplinkData), with what decodeUplink does on the input.
DecodeCallOf(hex, fPort, ret) == [hex |-> hex, fPort |-> fPort, ret |-> ret]

StepCodecs ==
    { FullCodec,
      CodecText(TRUE, TRUE, TRUE, TRUE, FALSE, FALSE),
      CodecText(TRUE, TRUE, TRUE, TRUE, TRUE, FALSE),
      CodecOfKind("number"), CodecOfKind("empty") }

StepHexInputs ==
    { <<"0", "A">>, <<"0", "A", " ", "F", "f">>, <<"0">>, <<"G", "0">>, <<>> }

StepCalls ==
    { DecodeCallOf(hex, fPort, ret) :
        hex \in StepHexInputs,
        fPort \in {JNum(2), JStr("2"), JUndef},
        ret \in {Returns(DataOf(D1)), Returns(JUndef), Throws} }

Pending == Returned(JUndef)

StepsInit ==
    /\ uCodec \in StepCodecs
    /\ uIn \in StepCalls
    /\ uPc = "load"
    /\ uTrace = <<>>
    /\ uCalls = <<>>
    /\ uOut = Pending

StepsIdle ==
    /\ uCodec = FullCodec
    /\ uIn = DecodeCallOf(<<>>, JUndef, Throws)
    /\ uPc = "idle"
    /\ uTrace = <<>>
    /\ uCalls = <<>>
    /\ uOut = Pending

\* Mutant: a missing decodeUplink does not stop the call.
AfterCheckGoesOn(defined) == "convert"

\* if (!sandbox.decodeUplink) throw ...
AfterCheck(defined) == IF defined THEN "convert" ELSE "threw"

\* vm.createContext(sandbox); vm.runInContext(codecSource, sandbox)
LoadStep ==
    /\ uPc = "load"
    /\ uTrace' = Append(uTrace, "load")
    /\ IF CodecLoads(CodecIn(host, uCodec))
       THEN uPc' = "check" /\ UNCHANGED uOut
       ELSE uPc' = "threw" /\ uOut' = Raised("Codec syntax error")
    /\ host' = HostAfter(host, uCodec)
    /\ UNCHANGED <<uCodec, uIn, uCalls, callVars, cVars, mVars, gVars, xVars>>

CheckStep ==
    /\ uPc = "check"
    /\ uTrace' = Append(uTrace, "check")
    /\ LET defined == uCodec.kind = "text" /\ uCodec.definesDecodeUplink
       IN  /\ uPc' = AfterCheck(defined)
           /\ uOut' = IF defined THEN uOut
                      ELSE Raised("decodeUplink function not found in codec")
    /\ UNCHANGED <<uCodec, uIn, uCalls, callVars, cVars, mVars, gVars, xVars, host>>

\* const bytes = hexToBytes(uplinkData)
ConvertStep ==
    /\ uPc = "convert"
    /\ uTrace' = Append(uTrace, "convert")
    /\ IF hexToBytes(uIn.hex).threw
       THEN uPc' = "threw" /\ uOut' = Raised(HexErrorText(uIn.hex))
       ELSE uPc' = "call" /\ UNCHANGED uOut
    /\ UNCHANGED <<uCodec, uIn, uCalls, callVars, cVars, mVars, gVars, xVars, host>>

\* sandbox.decodeUplink(input)
CallStep ==
    /\ uPc = "call"
    /\ uTrace' = Append(uTrace, "call")
    /\ uCalls' = Append(uCalls, DecodeInput(hexToBytes(uIn.hex).bytes, ParseInt(uIn.fPort)))
    /\ IF uIn.ret.k = "throw"
       THEN uPc' = "threw" /\ uOut' = Raised("Decode execution error")
       ELSE uPc' = "returned" /\ uOut' = Returned(uIn.ret.v)
    /\ UNCHANGED <<uCodec, uIn, callVars, cVars, mVars, gVars, xVars, host>>

StepsNext ==
    \/ LoadStep
    \/ CheckStep
    \/ ConvertStep
    \/ CallStep

(***************************************************************************)
(* The evaluation context of a codec script.  Each of validateCodecSyntax, *)
(* testDecode and testEncode builds an object literal, makes it the global *)
(* object of a new vm context and runs the codec text there.  An object    *)
(* is known by the realm that created it and by its name.                  *)
(***************************************************************************)
MaxTrail == 4

HostObj(n) == [realm |-> "host", name |-> n]
OwnObj(n) == [realm |-> "context", name |-> n]
NotDefined == [realm |-> "none", name |-> "ReferenceError"]
Nothing == [realm |-> "none", name |-> ""]

SandboxPlaces == {"validateCodecSyntax", "testDecode", "testEncode"}

\* The twelve names of the sandbox literals.
Whitelist ==
    { "console", "Uint8Array", "DataView", "Array", "parseInt", "parseFloat",
      "Math", "JSON", "Object", "String", "Number", "Boolean" }

\* `name: name` in a module of the host: every property holds the host's own object.
SandboxOfValidateCodecSyntax ==
    [n \in { "console", "Uint8Array", "DataView", "Array", "parseInt", "parseFloat",
             "Math", "JSON", "Object", "String", "Number", "Boolean" } |-> HostObj(n)]
SandboxOfTestDecode ==
    [n \in { "console", "Uint8Array", "DataView", "Array", "parseInt", "parseFloat",
             "Math", "JSON", "Object", "String", "Number", "Boolean" } |-> HostObj(n)]
SandboxOfTestEncode ==
    [n \in { "console", "Uint8Array", "DataView", "Array", "parseInt", "parseFloat",
             "Math", "JSON", "Object", "String", "Number", "Boolean" } |-> HostObj(n)]

sandbox(place) ==
    CASE place = "validateCodecSyntax" -> SandboxOfValidateCodecSyntax
      [] place = "testDecode" -> SandboxOfTestDecode
      [] place = "testEncode" -> SandboxOfTestEncode

\* What vm.createContext adds: the new global object also carries the language's
\* built-ins, made afresh for the context.  process and require are not among them.
OwnBuiltins == Whitelist \cup {"Function"}
HostGlobals == Whitelist \cup {"Function", "process", "require"}

\* An identifier in the script: a property of the sandbox first, then a built-in of
\* the context, else a ReferenceError.
Lookup(place, n) ==
    IF n \in DOMAIN sandbox(place) THEN sandbox(place)[n]
    ELSE IF n \in OwnBuiltins THEN OwnObj(n)
    ELSE NotDefined

FunctionNames ==
    { "Uint8Array", "DataView", "Array", "parseInt", "parseFloat", "Object", "String",
      "Number", "Boolean", "Function" }

\* value.constructor: the Function of the value's realm for a function, its Object
\* for a plain object (console, Math, JSON).
Constructor(o) ==
    IF o.name \in FunctionNames THEN [realm |-> o.realm, name |-> "Function"]
    ELSE IF o.name \in {"console", "Math", "JSON"} THEN [realm |-> o.realm, name |-> "Object"]
    ELSE Nothing

\* F('return ' + n)() for a Function F: the body runs with the global object of
\* F's realm.
CallFunction(place, f, n) ==
    IF f.realm = "host"
    THEN IF n \in HostGlobals THEN HostObj(n) ELSE NotDefined
    ELSE Lookup(place, n)

Identifiers == Whitelist \cup {"Function", "process", "require"}
BodyNames == {"process", "require", "Math"}

ContextInit ==
    /\ cPlace \in SandboxPlaces
    /\ cTrail = <<>>
    /\ cValue = Nothing

ContextIdle ==
    /\ cPlace = "testDecode"
    /\ cTrail = <<>>
    /\ cValue = Nothing

\* The script names an identifier.
EvalIdentifier ==
    /\ cTrail = <<>>
    /\ \E n \in Identifiers :
          /\ cTrail' = <<n>>
          /\ cValue' = Lookup(cPlace, n)
    /\ UNCHANGED <<cPlace, callVars, host, mVars, gVars, xVars, uVars>>

\* ... .constructor
EvalConstructor ==
    /\ cTrail # <<>>
    /\ Len(cTrail) < MaxTrail
    /\ cValue.realm # "none"
    /\ cTrail' = Append(cTrail, ".constructor")
    /\ cValue' = Constructor(cValue)
    /\ UNCHANGED <<cPlace, callVars, host, mVars, gVars, xVars, uVars>>

\* ... ('return n')()
EvalCall ==
    /\ cTrail # <<>>
    /\ Len(cTrail) < MaxTrail
    /\ cValue.realm # "none"
    /\ cValue.name = "Function"
    /\ \E n \in BodyNames :
          /\ cTrail' = Append(cTrail, n)
          /\ cValue' = CallFunction(cPlace, cValue, n)
    /\ UNCHANGED <<cPlace, callVars, host, mVars, gVars, xVars, uVars>>

ContextNext ==
    \/ EvalIdentifier
    \/ EvalConstructor
    \/ EvalCall

(***************************************************************************)
(* Calls that are not under study                                          *)
(***************************************************************************)
RerunIdle ==
    /\ vRun = 1
    /\ vFirst = NoReport

SandboxIdle ==
    /\ sCodec = FullCodec
    /\ sCalls = <<>>

DeepEqualIdle ==
    /\ actual = JNull
    /\ expected = JNull
    /\ dePc = "idle"
    /\ deResult = FALSE

(***************************************************************************)
(* Specifications: one per call under study, the other calls idle.         *)
(***************************************************************************)
\* A process starts with its built-ins as the runtime made them.
FreshHost == host = FALSE

ToolsIdle == ContextIdle /\ CliIdle /\ RegistryIdle /\ HexIdle /\ StepsIdle

InitDeepEqual ==
    DeepEqualInit /\ FieldsIdle /\ TestsIdle /\ ValidateIdle /\ RerunIdle /\ BatchIdle
        /\ SandboxIdle /\ FreshHost /\ ToolsIdle
SpecDeepEqual == InitDeepEqual /\ [][DeepEqualStep]_vars

InitFields ==
    FieldsInit /\ DeepEqualIdle /\ TestsIdle /\ ValidateIdle /\ RerunIdle /\ BatchIdle
        /\ SandboxIdle /\ FreshHost /\ ToolsIdle
SpecFields == InitFields /\ [][FieldsStep]_vars

InitTests ==
    TestsInit /\ DeepEqualIdle /\ FieldsIdle /\ ValidateIdle /\ RerunIdle /\ BatchIdle
        /\ SandboxIdle /\ FreshHost /\ ToolsIdle
SpecTests == InitTests /\ [][TestsStep]_vars

InitValidate ==
    ValidateInit /\ DeepEqualIdle /\ FieldsIdle /\ TestsIdle /\ RerunIdle /\ BatchIdle
        /\ SandboxIdle /\ FreshHost /\ ToolsIdle
SpecValidate == InitValidate /\ [][ValidateNext]_vars

InitBatch ==
    BatchInit /\ DeepEqualIdle /\ FieldsIdle /\ TestsIdle /\ ValidateIdle /\ RerunIdle
        /\ SandboxIdle /\ FreshHost /\ ToolsIdle
SpecBatch == InitBatch /\ [][BatchNext]_vars

InitRerun ==
    RerunInit /\ DeepEqualIdle /\ FieldsIdle /\ TestsIdle /\ BatchIdle /\ SandboxIdle
        /\ FreshHost /\ ToolsIdle
SpecRerun == InitRerun /\ [][RerunNext]_vars

InitSandbox ==
    SandboxInit /\ DeepEqualIdle /\ FieldsIdle /\ TestsIdle /\ ValidateIdle /\ RerunIdle
        /\ BatchIdle /\ FreshHost /\ ToolsIdle
SpecSandbox == InitSandbox /\ [][SandboxNext]_vars

CallsIdle ==
    DeepEqualIdle /\ FieldsIdle /\ TestsIdle /\ ValidateIdle /\ RerunIdle /\ BatchIdle
        /\ SandboxIdle

InitContext ==
    ContextInit /\ CallsIdle /\ CliIdle /\ RegistryIdle /\ HexIdle /\ StepsIdle
        /\ FreshHost
SpecContext == InitContext /\ [][ContextNext]_vars

InitCli ==
    CliInit /\ CallsIdle /\ ContextIdle /\ RegistryIdle /\ HexIdle /\ StepsIdle
        /\ FreshHost
SpecCli == InitCli /\ [][CliMain]_vars

InitRegistry ==
    RegistryInit /\ CallsIdle /\ ContextIdle /\ CliIdle /\ HexIdle /\ StepsIdle
        /\ FreshHost
SpecRegistry == InitRegistry /\ [][RegistryNext]_vars

InitHex ==
    HexInit /\ CallsIdle /\ ContextIdle /\ CliIdle /\ RegistryIdle /\ StepsIdle
        /\ FreshHost
SpecHex == InitHex /\ [][HexNext]_vars

InitSteps ==
    StepsInit /\ CallsIdle /\ ContextIdle /\ CliIdle /\ RegistryIdle /\ HexIdle
        /\ FreshHost
SpecSteps == InitSteps /\ [][StepsNext]_vars

(***************************************************************************)
(* Properties of validateRequiredFields                                    *)
(***************************************************************************)
HasMissingError(res, field) == InSeq(Err("Missing required field: %s", field), res.errors)

FieldAbsent(profile, field) ==
    CASE field = "model" -> profile.model = "absent"
      [] field = "codec" -> profile.codec.kind = "absent"
      [] field = "datatype" -> profile.datatype.kind = "absent"
      [] OTHER -> profile.lorawan.kind = "absent"

FieldEmptyValued(profile, field) ==
    CASE field = "model" -> profile.model = "empty"
      [] field = "codec" -> profile.codec.kind \in {"null", "empty"}
      [] field = "datatype" -> profile.datatype.kind = "null"
      [] OTHER -> profile.lorawan.kind = "null"

RequiredFieldSet == {"model", "codec", "datatype", "lorawan"}

KeySet(v) == {v.keys[i] : i \in 1..Len(v.keys)}

\* C6: on two arrays deepEqual is true iff they have the same length and deepEqual
\* holds at every index; order matters: [1,2] against [2,1] is false, [1,2] against
\* [1,2] is true.
C6_ArraysEqualIffLengthAndEveryIndex ==
    dePc = "done" =>
        /\ (IsArray(actual) /\ IsArray(expected)) =>
               (deResult <=>
                   /\ Len(actual.items) = Len(expected.items)
                   /\ \A i \in 1..Len(actual.items) :
                          i <= Len(expected.items)
                              /\ deepEqual(actual.items[i], expected.items[i]))
        /\ (actual = JArr(<<JNum(1), JNum(2)>>) /\ expected = JArr(<<JNum(2), JNum(1)>>))
               => ~deResult
        /\ (actual = JArr(<<JNum(1), JNum(2)>>) /\ expected = JArr(<<JNum(1), JNum(2)>>))
               => deResult

C6_Witness ==
    /\ dePc = "done"
    /\ actual = JArr(<<JNum(1), JNum(2)>>)
    /\ expected = JArr(<<JNum(2), JNum(1)>>)
    /\ ~deResult

\* C7: on two plain objects deepEqual is true iff the key sets are equal and deepEqual
\* holds for the values of every key; insertion order does not matter ({a:1,b:2}
\* against {b:2,a:1} is true) and an extra or missing key gives false ({a:1} against
\* {a:1,b:2} is false, either way round).
C7_ObjectsEqualIffKeySetAndEveryValue ==
    dePc = "done" =>
        /\ (actual.t = "obj" /\ expected.t = "obj") =>
               (deResult <=>
                   /\ KeySet(actual) = KeySet(expected)
                   /\ \A k \in KeySet(actual) : deepEqual(Get(actual, k), Get(expected, k)))
        /\ (actual = JObj(<<"a", "b">>, <<JNum(1), JNum(2)>>)
              /\ expected = JObj(<<"b", "a">>, <<JNum(2), JNum(1)>>)) => deResult
        /\ (actual = JObj(<<"a">>, <<JNum(1)>>)
              /\ expected = JObj(<<"a", "b">>, <<JNum(1), JNum(2)>>)) => ~deResult
        /\ (actual = JObj(<<"a", "b">>, <<JNum(1), JNum(2)>>)
              /\ expected = JObj(<<"a">>, <<JNum(1)>>)) => ~deResult

C7_Witness ==
    /\ dePc = "done"
    /\ actual = JObj(<<"a", "b">>, <<JNum(1), JNum(2)>>)
    /\ expected = JObj(<<"b", "a">>, <<JNum(2), JNum(1)>>)
    /\ deResult

\* C8: deepEqual is reflexive on JSON-like values: comparing such a value with a
\* structurally identical copy of it gives true.
C8_ReflexiveOnJSONLike ==
    (dePc = "done" /\ IsJSONLike(actual) /\ expected = actual) => deResult

C8_Witness ==
    /\ dePc = "done"
    /\ actual = JObj(<<"a">>, <<JObj(<<"b", "a">>, <<JNum(2), JNum(1)>>)>>)
    /\ expected = actual
    /\ deResult

\* C9: deepEqual never coerces: null or undefined on one side is unequal to every
\* other value (null is unequal to undefined), a string is unequal to the number it
\* spells, and two primitives are equal only when they are strictly equal.
C9_NoCoercion ==
    dePc = "done" =>
        /\ ((IsNullish(actual) \/ IsNullish(expected)) /\ actual # expected) => ~deResult
        /\ (actual.t = "str" /\ expected.t = "num") => ~deResult
        /\ (actual.t = "num" /\ expected.t = "str") => ~deResult
        /\ (~IsComposite(actual) /\ ~IsComposite(expected)) =>
               (deResult <=> (actual = expected /\ actual.t # "nan"))

C9_Witness ==
    /\ dePc = "done"
    /\ actual = JStr("1")
    /\ expected = JNum(1)
    /\ ~deResult

(***************************************************************************)
(* Properties of runTestDataValidation                                     *)
(***************************************************************************)
\* The model named by a base name: what follows its first hyphen, when something
\* precedes and something follows that hyphen.
DerivedModels(stem) ==
    {SubSeq(stem, i + 1, Len(stem)) :
        i \in {h \in 2..(Len(stem) - 1) :
                  stem[h] = "-" /\ \A j \in 1..(h - 1) : stem[j] # "-"}}

\* The results are those of the fixture indices in S, in increasing order.
ResultsAreExactly(S) ==
    /\ Len(tCheck.results) = Cardinality(S)
    /\ \A k \in 1..Len(tCheck.results) : tCheck.results[k].idx \in S
    /\ \A k, l \in 1..Len(tCheck.results) :
          k < l => tCheck.results[k].idx < tCheck.results[l].idx

\* C4 as claimed: with a model M derived from the file name, the test cases executed
\* are exactly the fixture cases whose model field is absent or equal to M, in
\* fixture order.
C4_Original_AbsentOrEqualModel ==
    (tPc = "done" /\ tData.state = "loaded") =>
        \A m \in DerivedModels(tStem) :
            ResultsAreExactly({i \in 1..Len(tData.cases) :
                \/ tData.cases[i].model.kind = "absent"
                \/ tData.cases[i].model = StrModel(m)})

\* C4 amended: with a model M derived from the file name, the test cases executed
\* are exactly the fixture cases whose model field is absent or falsy (null, the
\* empty string) or equal to M, in fixture order; no other case is executed and no
\* selected case is skipped.
C4_AbsentFalsyOrEqualModel ==
    (tPc = "done" /\ tData.state = "loaded") =>
        \A m \in DerivedModels(tStem) :
            ResultsAreExactly({i \in 1..Len(tData.cases) :
                \/ tData.cases[i].model.kind \in {"absent", "null"}
                \/ tData.cases[i].model = StrModel(<<>>)
                \/ tData.cases[i].model = StrModel(m)})

C4_Witness ==
    /\ tPc = "done"
    /\ tStem = <<"V", "-", "X">>
    /\ tData.state = "loaded"
    /\ Len(tData.cases) = 3
    /\ tData.cases[1].name = "A" /\ tData.cases[1].model = ModelX
    /\ tData.cases[2].name = "B" /\ tData.cases[2].model = ModelY
    /\ tData.cases[3].name = "C" /\ tData.cases[3].model = NoModel
    /\ Len(tCheck.results) = 2
    /\ tCheck.results[1].name = "A"
    /\ tCheck.results[2].name = "C"

\* The expected-output entries that answer a test case: same name, and the same
\* model when both sides carry one.
ExpectedHits(tc) ==
    IF tExpected.state # "loaded" THEN {}
    ELSE {j \in 1..Len(tExpected.cases) :
            /\ tExpected.cases[j].name = tc.name
            /\ \/ FalsyName(tExpected.cases[j].model)
               \/ FalsyName(tc.model)
               \/ tExpected.cases[j].model = tc.model}

FirstHitOutput(tc) ==
    LET hits == ExpectedHits(tc)
    IN  tExpected.cases[CHOOSE j \in hits : \A k \in hits : j <= k].expectedOutput

IsOutcome(r, st, m) == r.status = st /\ r.matched = m

C1_YamlFailureIsFatal ==
    (vPc # "idle" /\ vIn.yaml # "ok") =>
        /\ vPc \in {"start", "done"}
        /\ vOrder \in {<<>>, <<"yamlSyntax">>}
        /\ \A n \in StageSet \ {"yamlSyntax"} : vChecks[n] = NotRun
        /\ vTests = NoTests
        /\ vPc = "done" =>
              /\ ~vValid
              /\ vOrder = <<"yamlSyntax">>
              /\ ~vChecks["yamlSyntax"].valid
              /\ vChecks["yamlSyntax"].errors # <<>>

C1_Witness ==
    /\ vPc = "done"
    /\ vIn.yaml = "syntaxError"
    /\ vIn.runTests = "true"
    /\ ~vValid
    /\ vOrder = <<"yamlSyntax">>
    /\ Len(vChecks["yamlSyntax"].errors) = 1

\* C2 as claimed: for every profile whose YAML parses, an empty document and a
\* missing or wrongly typed codec, datatype or lorawan included, no check throws and
\* validateProfile records schema, requiredFields, codec, bacnet and naming, in that
\* order, after yamlSyntax.
C2_Original_AllStagesRunAndNoneThrows ==
    (vPc # "idle" /\ vIn.yaml = "ok") =>
        /\ vPc # "threw"
        /\ vPc = "done" => (Len(vOrder) >= Len(Stages) /\ SubSeq(vOrder, 1, Len(Stages)) = Stages)

\* C3 as claimed: whenever one of the stages before the tests returns valid = false,
\* the report that validateProfile returns has valid = false; a failed naming check
\* included.
C3_Original_AnyFailedStageInvalidates ==
    vPc = "done" => ((\E n \in StageSet : ~vChecks[n].valid) => ~vValid)

SevenObjectTypes ==
    {"AnalogInputObject", "AnalogOutputObject", "AnalogValueObject", "BinaryInputObject",
     "BinaryOutputObject", "BinaryValueObject", "OctetStringValueObject"}

\* The errors of the check that name a given channel.
BacnetErrorsOf(channel) ==
    {k \in 1..Len(fBacnet.errors) : fBacnet.errors[k].arg = channel}

OffendingChannels ==
    {i \in 1..Len(fProfile.datatype.channels) :
        fProfile.datatype.channels[i].type \notin SevenObjectTypes}

CodecIsString(codec) == codec.kind \in {"text", "empty"}

\* The codec source contains the name of an entry point.
SourceNames(codec, func) ==
    /\ codec.kind = "text"
    /\ \/ func = "Decode" /\ codec.hasDecode
       \/ func = "decodeUplink" /\ codec.hasDecodeUplink
       \/ func = "Encode" /\ codec.hasEncode
       \/ func = "encodeDownlink" /\ codec.hasEncodeDownlink

SourceLoads(codec) == codec.kind = "empty" \/ codec.loads

\* C12: on a codec text validateCodecSyntax returns valid = false with the error
\* 'Missing required function: F' for each required entry point F (Decode,
\* decodeUplink) the text lacks, and valid = false with a 'JavaScript syntax error'
\* when the text does not load in the sandbox; an optional entry point (Encode,
\* encodeDownlink) that is absent adds the warning 'Optional function not found: F'
\* and nothing else: valid is true exactly when both required entry points are
\* there and the text loads.
C12_RequiredFailOptionalWarn ==
    (fPc = "done" /\ fProfile.kind = "object" /\ CodecIsString(fProfile.codec)) =>
        /\ ~fCodec.threw
        /\ \A f \in {"Decode", "decodeUplink"} :
              /\ ~SourceNames(fProfile.codec, f) => ~fCodec.valid
              /\ InSeq(Err("Missing required function: %s", f), fCodec.errors)
                     <=> ~SourceNames(fProfile.codec, f)
        /\ ~SourceLoads(fProfile.codec) => ~fCodec.valid
        /\ InSeq(Err("JavaScript syntax error: %s", ""), fCodec.errors)
               <=> ~SourceLoads(fProfile.codec)
        /\ \A f \in {"Encode", "encodeDownlink"} :
              /\ InSeq(Err("Optional function not found: %s", f), fCodec.warnings)
                     <=> ~SourceNames(fProfile.codec, f)
              /\ \A k \in 1..Len(fCodec.errors) : fCodec.errors[k].arg # f
        /\ fCodec.valid <=>
              /\ SourceNames(fProfile.codec, "Decode")
              /\ SourceNames(fProfile.codec, "decodeUplink")
              /\ SourceLoads(fProfile.codec)

C12_Witness ==
    /\ fPc = "done"
    /\ fProfile.kind = "object"
    /\ fProfile.codec = CodecText(FALSE, TRUE, TRUE, FALSE, TRUE, TRUE)
    /\ ~fCodec.valid
    /\ fCodec.errors = <<Err("Missing required function: %s", "Decode")>>
    /\ fCodec.warnings = <<Err("Optional function not found: %s", "encodeDownlink")>>

\* C13 as claimed: when the codec of a profile lacks a required decode entry point,
\* the codec check fails with an error naming it and validateProfile does not go on
\* to the tests: the tests stage is not run and the report has no tests entry, even
\* when options.runTests is not false.
C13_Original_NoTestsAfterCodecFailure ==
    (vPc = "done" /\ InSeq("codec", vOrder)
        /\ \E f \in {"Decode", "decodeUplink"} :
               InSeq(Err("Missing required function: %s", f), vChecks["codec"].errors)) =>
        /\ ~vChecks["codec"].valid
        /\ ~InSeq("tests", vOrder)
        /\ vTests = NoTests

\* The fixture indices of the test cases the filter selects for the profile.
SelectedCases == FilterIdx(tData.cases, extractModelFromPath(tStem), 1)

\* The execution of a test case fails: the codec does not load, decodeUplink is
\* missing, the input is not hex, or the decode function throws; a decode that
\* returns nothing fails when its data is read.
ExecutionFails(tc) ==
    LET dec == testDecode(tCodec, tc)
    IN  dec.threw \/ IsNullish(dec.v)

\* C14: a failure while executing one test case (codec load error, missing
\* decodeUplink, invalid hex input, exception of the decode function) is recorded
\* as a FAIL result carrying the error, and as one error, for that case only; every
\* selected test case, before or after it, is executed and has its own result.
C14_FailureStaysInItsCase ==
    (tPc = "done" /\ tData.state = "loaded") =>
        LET sel == SelectedCases
            failing == {k \in 1..Len(sel) : ExecutionFails(tData.cases[sel[k]])}
        IN  /\ Len(tCheck.results) = Len(sel)
            /\ \A k \in 1..Len(tCheck.results) :
                  LET r == tCheck.results[k]
                      tc == tData.cases[sel[k]]
                      dec == testDecode(tCodec, tc)
                  IN  /\ r.idx = sel[k]
                      /\ r.name = tc.name
                      /\ k \in failing <=> (r.status = "FAIL" /\ r.matched = "absent")
                      /\ dec.threw => r.error = dec.msg
                      /\ k \notin failing => r.matched \in {"true", "false", "null"}
            /\ Len(tCheck.errors)
                  = Cardinality({k \in 1..Len(tCheck.results) :
                                    tCheck.results[k].status = "FAIL"})
            /\ \A nm \in {"A", "B", "C"} :
                  Cardinality({i \in 1..Len(tCheck.errors) :
                                  tCheck.errors[i] = Err("Test case '%s' failed", nm)})
                    = Cardinality({k \in failing : tData.cases[sel[k]].name = nm})

C14_Witness ==
    /\ tPc = "done"
    /\ tCodec = FullCodec
    /\ Len(tCheck.results) = 3
    /\ tCheck.results[1].status = "FAIL"
    /\ tCheck.results[1].error = "Decode execution error"
    /\ tCheck.results[2].status = "PASS"
    /\ tCheck.results[3].status = "FAIL"
    /\ tCheck.results[3].error = "Invalid hex string"
    /\ Len(tCheck.errors) = 2

(***************************************************************************)
(* Properties of the batch driver (validate-all.js)                        *)
(***************************************************************************)
Root == <<DirName("profiles")>>

\* Every file below a directory, at any depth, with its path.
RECURSIVE AllFiles(_, _)
AllFiles(dir, entries) ==
    UNION {IF entries[i].dir
           THEN AllFiles(Append(dir, entries[i].name), entries[i].entries)
           ELSE {Found(Append(dir, entries[i].name), entries[i].content)} :
           i \in 1..Len(entries)}

\* The directories between the root and the file.
DirsAbove(path) == {path[k] : k \in 2..(Len(path) - 1)}

ProfileFiles ==
    {f \in AllFiles(Root, bTree) :
        /\ f.path[Len(f.path)].ext \in {".yaml", ".yml"}
        /\ DirsAbove(f.path)
              \cap {DirName("node_modules"), DirName(".git"), DirName("tests")} = {}}

Scanned == bPc \in {"loop", "exited"} /\ ~bArgs.help /\ bArgs.dirExists

\* The entries of results.files with one of the given statuses.
EntriesWith(sts) == {k \in 1..Len(bResults.files) : bResults.files[k].status \in sts}

\* C15: after every file processed, passed + failed = the number of files processed
\* so far = the length of results.files, and each processed file has exactly one
\* entry, PASS, FAIL or ERROR, counted as passed or failed accordingly; when the
\* process exits after the loop, passed + failed = total = the number of enumerated
\* files, every non-passing path is listed, and the exit status is 1 if failed > 0
\* and 0 otherwise (0 as well when no file was found).
C15_CountersMatchFiles ==
    Scanned =>
        /\ bPc = "loop" => Len(bResults.files) = bI - 1
        /\ bResults.passed + bResults.failed = Len(bResults.files)
        /\ bResults.passed = Cardinality(EntriesWith({"PASS"}))
        /\ bResults.failed = Cardinality(EntriesWith({"FAIL", "ERROR"}))
        /\ bFiles # <<>> => bResults.total = Len(bFiles)
        /\ \A k \in 1..Len(bResults.files) :
              /\ k <= Len(bFiles)
              /\ bResults.files[k].file = bFiles[k].path
              /\ bResults.files[k].status \in {"PASS", "FAIL", "ERROR"}
        /\ bPc = "exited" =>
              /\ bResults.passed + bResults.failed = Len(bFiles)
              /\ {bListed[k] : k \in 1..Len(bListed)}
                    = {bResults.files[k].file : k \in EntriesWith({"FAIL", "ERROR"})}
              /\ Len(bListed) = bResults.failed
              /\ bExit = IF bResults.failed > 0 THEN 1 ELSE 0

C15_Witness ==
    /\ Scanned
    /\ bPc = "exited"
    /\ bResults.total = 3
    /\ bResults.passed = 2
    /\ bResults.failed = 1
    /\ bResults.files[2].status = "FAIL"
    /\ bListed = <<bFiles[2].path>>
    /\ bExit = 1

\* validateProfile throws for the file (whatever was validated before it).
ThrowsFor(found) == validateProfile(FALSE, BatchInput(found)).threw

\* The file is validated without an exception and its codec marks a built-in.
MarksBuiltins(found) ==
    /\ ~ThrowsFor(found)
    /\ validateProfile(FALSE, BatchInput(found)).host

\* The status of a file validated in a process of its own.
StatusAlone(found) ==
    LET out == validateProfile(FALSE, BatchInput(found))
    IN  IF out.threw THEN "ERROR" ELSE IF out.valid THEN "PASS" ELSE "FAIL"

\* C16: the batch driver continues on error: a file for which validateProfile throws
\* is counted as failed with status ERROR, the loop goes on to every remaining
\* file, and an exception changes nothing for the files after it: each of them has
\* the status it has when validated alone (as long as no file validated without
\* exception before it has touched the built-ins).
C16_ContinuesAfterException ==
    Scanned =>
        /\ \A k \in 1..Len(bResults.files) :
              /\ ThrowsFor(bFiles[k]) <=> bResults.files[k].status = "ERROR"
              /\ (\A j \in 1..(k - 1) : ~MarksBuiltins(bFiles[j])) =>
                     bResults.files[k].status = StatusAlone(bFiles[k])
        /\ bResults.failed >= Cardinality(EntriesWith({"ERROR"}))
        /\ bPc = "loop" => Len(bResults.files) = bI - 1
        /\ bPc = "exited" => Len(bResults.files) = Len(bFiles)

C16_Witness ==
    /\ Scanned
    /\ bPc = "exited"
    /\ Len(bResults.files) = 3
    /\ bResults.files[1].status = "ERROR"
    /\ bResults.files[2].status = "PASS"
    /\ bResults.files[3].status = "FAIL"
    /\ bResults.passed = 1
    /\ bResults.failed = 2

\* C17: findYAMLFiles returns exactly the files under the root whose name ends in
\* .yaml or .yml and that do not lie below a subdirectory named node_modules, .git
\* or tests, at any depth; each of them once, and no file of a skipped directory.
C17_ExactlyTheProfileFiles ==
    Scanned =>
        /\ {bFiles[k] : k \in 1..Len(bFiles)} = ProfileFiles
        /\ Len(bFiles) = Cardinality(ProfileFiles)
        /\ \A k \in 1..Len(bFiles) :
              \A d \in DirsAbove(bFiles[k].path) : d.stem \notin {<<"tests">>, <<".git">>,
                                                                   <<"node_modules">>}

C17_Witness ==
    /\ Scanned
    /\ bTree = <<DirEntry("V", <<XYaml, DirEntry("tests", <<YYml>>)>>),
                 DirEntry("tests", <<DirEntry("V", <<XYaml>>)>>),
                 TestsYaml>>
    /\ Len(bFiles) = 2
    /\ bFiles[1].path = <<DirName("profiles"), DirName("V"), Name(<<"V", "-", "X">>, ".yaml")>>
    /\ bFiles[2].path = <<DirName("profiles"), Name(<<"tests">>, ".yaml")>>

(***************************************************************************)
(* Properties across calls of one process                                  *)
(***************************************************************************)
\* C19 as claimed: validateProfile is idempotent: for any profile file and fixtures
\* left unchanged, a second run in the same process, whatever else was validated in
\* between, gives the same overall valid flag and the same errors and warnings in
\* every check as the first; nothing of an earlier run is carried into a later one.
C19_Original_SecondRunSameReport ==
    (vRun = 2 /\ vPc \in {"done", "threw"}) => CurrentReport = vFirst

\* The result of a call made in a process that has made no other call.
ResultAlone(call) ==
    IF call.fn = "decode" THEN testDecode(sCodec, call.input)
    ELSE testEncode(sCodec, call.input.ret)

\* C20 as claimed: codec execution is stateless across calls: nothing a codec does
\* in one testDecode or testEncode call, mutating the built-in objects it is handed
\* included, is observable in a later call, so every call gives the result it gives
\* when it is the only call of the process.
C20_Original_CallsAreIndependent ==
    \A k \in 1..Len(sCalls) : sCalls[k].result = ResultAlone(sCalls[k])

(***************************************************************************)
(* The globals of the evaluation context                                   *)
(***************************************************************************)
HostProcess == HostObj("process")

\* C21 as claimed: the three sandboxes bind exactly the same twelve whitelisted
\* names, and nothing a codec script can evaluate from them is the process object
\* of the host (the way to its files, its sockets and its exit).
C21_Original_WhitelistWithoutProcessAccess ==
    /\ \A p \in SandboxPlaces : DOMAIN sandbox(p) = Whitelist
    /\ \A p, q \in SandboxPlaces : sandbox(p) = sandbox(q)
    /\ cValue # HostProcess

(***************************************************************************)
(* Optional fixtures                                                       *)
(***************************************************************************)
CaseErrorTexts == {"Test case '%s' failed", "Test case '%s' output mismatch"}

\* Without test-data.json: valid, one warning, no errors, no results.
NothingToRun ==
    /\ ~tCheck.threw
    /\ tCheck.valid
    /\ tCheck.errors = <<>>
    /\ tCheck.results = <<>>
    /\ tCheck.warnings = <<Err("No test data found (tests/test-data.json)", "")>>

\* No error is about expected-output.json: every error is the error of a test case.
OnlyCaseErrors ==
    /\ \A k \in 1..Len(tCheck.errors) : tCheck.errors[k].msg \in CaseErrorTexts
    /\ Len(tCheck.warnings) <= 1
    /\ tExpected.state = "missing" => tCheck.warnings = <<>>

NoExpectedFixture == tData.state = "loaded" /\ tExpected.state \in {"missing", "unparsable"}

Validating(args) == args.file # "none" /\ ~args.help

FileExists(args) == args.file \in ContentIds

\* C23 as claimed: the command line exits 0 exactly when validateProfile returned a
\* report with valid = true, exits 1 when the report is invalid, the file does not
\* exist or validateProfile throws, and --json never changes the exit status.
C23_Original_ExitZeroIffValid ==
    (mPc = "exited" /\ Validating(mArgs)) =>
        LET out == validateProfile(FALSE, CliInput(mArgs))
        IN  /\ mExit = 0 <=> (FileExists(mArgs) /\ ~out.threw /\ out.valid)
            /\ mExit = main(FALSE, [mArgs EXCEPT !.json = ~mArgs.json]).exit

(***************************************************************************)
(* The registry                                                            *)
(***************************************************************************)
RECURSIVE SumCounts(_, _)
SumCounts(byVendor, vs) ==
    IF vs = {} THEN 0
    ELSE LET v == CHOOSE x \in vs : TRUE
         IN  byVendor[v].n + SumCounts(byVendor, vs \ {v})

\* C24 as claimed: in every registry written, totalProfiles is the number of
\* entries, byVendor has for every vendor the count of its entries and these counts
\* add up to that number, withTests is the number of entries with hasTests and
\* withTests + withoutTests is that number; the three consistency checks of
\* validate-registry then warn about nothing.
C24_Original_RegistryIsConsistent ==
    gPc # "start" =>
        LET n == Len(gFile.profiles)
            st == gFile.statistics
        IN  /\ gFile.totalProfiles = n
            /\ DOMAIN st.byVendor = VendorsOf(gFile.profiles)
            /\ \A v \in DOMAIN st.byVendor :
                  st.byVendor[v] = Count(VendorCount(gFile.profiles, v))
            /\ SumCounts(st.byVendor, DOMAIN st.byVendor) = n
            /\ st.withTests = WithTestsCount(gFile.profiles)
            /\ st.withTests + st.withoutTests = n
            /\ gPc = "validated" => gWarnings = {}

(***************************************************************************)
(* The LoRaWAN keys                                                        *)
(***************************************************************************)
\* The required subset of each version of the validator.
RequiredLorawanKeys ==
    IF fVersion = "classSupport" THEN {"macVersion", "supportClassB", "supportClassC"}
    ELSE {"macVersion", "region", "supportOTAA"}

\* The keys lorawan has, whatever their values; a scalar has none.
KeysPresent(lorawan) == IF lorawan.kind = "object" THEN lorawan.keys ELSE {}

IsLorawanError(e) == e.msg = "lorawan.%s is required"

C26_AllCasesWithoutModel ==
    (tPc = "done" /\ tData.state = "loaded" /\ DerivedModels(tStem) = {}) =>
        ResultsAreExactly(1..Len(tData.cases))

C26_Witness ==
    /\ tPc = "done"
    /\ tStem = <<"V", "X">>
    /\ tData.state = "loaded"
    /\ Len(tData.cases) = 3
    /\ tData.cases[1].model = ModelX
    /\ tData.cases[2].model = ModelY
    /\ tData.cases[3].model = NoModel
    /\ Len(tCheck.results) = 3
    /\ tCheck.results[2].model = ModelY

(***************************************************************************)
(* Hexadecimal strings                                                     *)
(***************************************************************************)
HexDigitChars ==
    { "0", "1", "2", "3", "4", "5", "6", "7", "8", "9",
      "A", "B", "C", "D", "E", "F", "a", "b", "c", "d", "e", "f" }

\* The characters of a string that are neither whitespace nor hyphens.
Significant(cs) == SelectSeq(cs, LAMBDA c : c \notin {" ", "\t", "-"})

WellFormedHex(cs) ==
    /\ \A k \in 1..Len(Significant(cs)) : Significant(cs)[k] \in HexDigitChars
    /\ Len(Significant(cs)) % 2 = 0

\* C27: hexToBytes(bytesToHex(b)) = b for every sequence b of integers in 0..255,
\* with the default separator, a space, '-' or ''; hexToBytes accepts a string
\* exactly when, whitespace and hyphens removed, it is made of hexadecimal digits
\* only and has even length, then returns length/2 values each in 0..255, and
\* otherwise raises an error and returns nothing.
C27_HexRoundTrip ==
    /\ xPc = "roundTrip" => (~xOut.threw /\ xOut.bytes = xBytes)
    /\ xPc \in {"roundTrip", "parsed"} =>
          /\ ~xOut.threw <=> WellFormedHex(xText)
          /\ ~xOut.threw =>
                /\ Len(xOut.bytes) * 2 = Len(Significant(xText))
                /\ \A k \in 1..Len(xOut.bytes) : xOut.bytes[k] \in 0..255
          /\ xOut.threw => xOut.bytes = <<>>

C27_Witness ==
    /\ xPc = "roundTrip"
    /\ xBytes = <<10, 255, 0>>
    /\ xSep = SepArg(TRUE, <<"-">>)
    /\ xText = <<"0", "A", "-", "F", "F", "-", "0", "0">>
    /\ xOut = HexResult(FALSE, <<10, 255, 0>>)

(***************************************************************************)
(* results, errors and valid of the test stage                             *)
(***************************************************************************)
FailEntries == {k \in 1..Len(tCheck.results) : tCheck.results[k].status = "FAIL"}

\* C28: after runTestDataValidation on a test-data.json that loads, results has
\* exactly one entry, PASS or FAIL, per selected test case, in fixture order; there
\* are as many errors as FAIL entries; and valid is true exactly when no entry is
\* FAIL, an entry with matched = null being a PASS.
C28_OneEntryPerCaseOneErrorPerFail ==
    (tPc = "done" /\ tData.state = "loaded") =>
        /\ ResultsAreExactly({i \in 1..Len(tData.cases) :
                                SelectsCase(tData.cases[i], extractModelFromPath(tStem))})
        /\ \A k \in 1..Len(tCheck.results) :
              /\ tCheck.results[k].status \in {"PASS", "FAIL"}
              /\ tCheck.results[k].matched = "null" => tCheck.results[k].status = "PASS"
        /\ Len(tCheck.errors) = Cardinality(FailEntries)
        /\ tCheck.valid <=> FailEntries = {}

C28_Witness ==
    /\ tPc = "done"
    /\ tData.state = "loaded"
    /\ Len(tData.cases) = 3
    /\ Len(tCheck.results) = 2
    /\ IsOutcome(tCheck.results[1], "FAIL", "false")
    /\ IsOutcome(tCheck.results[2], "PASS", "null")
    /\ Len(tCheck.errors) = 1
    /\ ~tCheck.valid

(***************************************************************************)
(* Arrays against objects                                                  *)
(***************************************************************************)
\* C29 as claimed: whenever exactly one of the two arguments of deepEqual is an
\* array ([] against {}, [1] against {"0": 1}), the result is false.
C29_Original_ArrayNeverEqualsObject ==
    (dePc = "done" /\ IsArray(actual) # IsArray(expected)) => ~deResult

(***************************************************************************)
(* The order of the steps of testDecode                                    *)
(***************************************************************************)
\* The first step that fails for the codec and the input of the call, 5 when none does.
FirstFailure ==
    IF ~(uCodec.kind = "empty" \/ (uCodec.kind = "text" /\ uCodec.loads)) THEN 1
    ELSE IF ~(uCodec.kind = "text" /\ uCodec.definesDecodeUplink) THEN 2
    ELSE IF ~WellFormedHex(uIn.hex) THEN 3
    ELSE IF uIn.ret.k = "throw" THEN 4
    ELSE 5

FailureTexts(step) ==
    CASE step = 1 -> {"Codec syntax error"}
      [] step = 2 -> {"decodeUplink function not found in codec"}
      [] step = 3 -> {"Invalid hex string", "Hex string length must be even"}
      [] OTHER -> {"Decode execution error"}

\* C30: testDecode loads the codec, checks that decodeUplink is defined, converts
\* the hex input and calls decodeUplink, in this order, and stops at the first step
\* that fails, reporting that failure only; decodeUplink is not called when the
\* codec did not load, the entry point is missing or the hex input is invalid, and
\* is called at most once, with {bytes, fPort, variables = {}}.
C30_StepsInOrderFirstFailureOnly ==
    /\ uTrace = SubSeq(DecodeSteps, 1, Len(uTrace))
    /\ Len(uTrace) <= (IF FirstFailure = 5 THEN 4 ELSE FirstFailure)
    /\ uPc = "threw" =>
          /\ Len(uTrace) = FirstFailure
          /\ uOut.threw /\ uOut.msg \in FailureTexts(FirstFailure)
    /\ uPc = "returned" =>
          /\ FirstFailure = 5
          /\ uOut = Returned(uIn.ret.v)
    /\ Len(uCalls) <= 1
    /\ uCalls # <<>> =>
          /\ FirstFailure >= 4
          /\ uCalls[1].bytes = hexToBytes(uIn.hex).bytes
          /\ uCalls[1].fPort = ParseInt(uIn.fPort)
          /\ uCalls[1].variables = JObj(<<>>, <<>>)
    /\ (uPc \in {"threw", "returned"} /\ FirstFailure >= 4) => Len(uCalls) = 1

C30_Witness ==
    /\ uPc = "threw"
    /\ uCodec = FullCodec
    /\ uIn.hex = <<"G", "0">>
    /\ uIn.ret = Throws
    /\ uTrace = <<"load", "check", "convert">>
    /\ uCalls = <<>>
    /\ uOut = Raised("Invalid hex string")

====
